---- MODULE Spec2Model ----
(***************************************************************************)
(* terminalmarket-cli: the HTTP client adapter (src/api.js), the local     *)
(* config store (src/config.js) and the command handlers of bin/tm.js that *)
(* carry session state, post-process lists (search), chain fallbacks (buy) *)
(* or validate their input (review, profile set, subscribe add, ai run,    *)
(* watch create).                                                          *)
(*                                                                         *)
(* JavaScript strings are sequences of one-character strings, so that      *)
(* replace(), match() and includes() are computed, not assumed.  A value   *)
(* that may be null is an option: Null (<< >>) or Some(v) (<<v>>).         *)
(* A handler runs from one await to the next in one action; the adapter's  *)
(* return (the resolution of fetch) is an action of its own.               *)
(***************************************************************************)
EXTENDS Integers, Sequences, FiniteSets, TLC

VARIABLES
  conf,      \* the Conf store: key -> option
  cmd,       \* the command this process runs ("none": no process)
  pc,        \* the handler's position
  call,      \* the request in flight: Null or Some(request)
  resp,      \* the response the adapter last consumed: Null or Some(response)
  ret,       \* what the adapter operation last produced
  sent,      \* the requests fetch() was given in this invocation, in order
  ncalls,    \* adapter operations invoked in this invocation
  exitCode,  \* process.exitCode (0 when never set)
  out,       \* what the handler printed last
  jbase,     \* joinUrl harness: the base getApiBase() last gave
  jpath,     \* joinUrl harness: the path last joined
  jurl,      \* joinUrl harness: the url last built, Null before the first
  sx,        \* search pipeline state
  loc        \* the local variables of the buy, ai, watch and validating handlers

vars == <<conf, cmd, pc, call, resp, ret, sent, ncalls, exitCode, out,
          jbase, jpath, jurl, sx, loc>>

\* the state of the joinUrl and search harnesses
harness == <<jbase, jpath, jurl, sx, loc>>

----------------------------------------------------------------------------
(* Options and strings *)

Null == << >>
Some(v) == <<v>>
Val(o) == o[1]

\* JavaScript truthiness of a string-or-null
Truthy(o) == o # Null /\ Val(o) # << >>

IsPrefixAt(p, s, i) ==
  /\ i >= 1
  /\ i + Len(p) - 1 <= Len(s)
  /\ SubSeq(s, i, i + Len(p) - 1) = p

\* String.prototype.includes
Includes(s, p) == \E i \in 1..(Len(s) + 1) : IsPrefixAt(p, s, i)

Digits == <<"0", "1", "2", "3", "4", "5", "6", "7", "8", "9">>

\* the decimal rendering of a number inside a template literal
RECURSIVE DecStr(_)
DecStr(n) ==
  IF n < 10 THEN <<Digits[n + 1]>>
  ELSE DecStr(n \div 10) \o <<Digits[(n % 10) + 1]>>

EmDash == "U+2014"

SidName == <<"c","o","n","n","e","c","t",".","s","i","d","=">>
AppJson == <<"a","p","p","l","i","c","a","t","i","o","n","/","j","s","o","n">>
DefaultApiBase == <<"h","t","t","p","s",":","/","/","t","e","r","m","i","n","a","l","m","a","r","k","e","t",".","a","p","p","/","a","p","i">>
LocalApiBase == <<"h","t","t","p",":","/","/","l","o","c","a","l","h","o","s","t",":","5","0","0","0","/","a","p","i","/">>

----------------------------------------------------------------------------
(* Local config store *)

ConfKeys == {"apiBase", "sessionCookie", "csrfToken", "user", "location"}

\* conf.get(key, default)
ConfGet(c, key, default) == IF c[key] = Null THEN default ELSE c[key]
\* conf.set(key, value)
ConfSet(c, key, value) == [c EXCEPT ![key] = Some(value)]
\* conf.clear() in place of conf.delete(key)
ConfDeleteAll(c, key) == [k \in DOMAIN c |-> Null]
\* conf.delete(key)
ConfDelete(c, key) == [c EXCEPT ![key] = Null]

getApiBase(c) == Val(ConfGet(c, "apiBase", Some(DefaultApiBase)))
setApiBase(c, value) == ConfSet(c, "apiBase", value)
getSessionCookie(c) == ConfGet(c, "sessionCookie", Null)
setSessionCookie(c, value) == ConfSet(c, "sessionCookie", value)
clearSession(c) == ConfDelete(c, "sessionCookie")
getUser(c) == ConfGet(c, "user", Null)
setUser(c, user) == ConfSet(c, "user", user)
clearUser(c) == ConfDelete(c, "user")
getCsrfToken(c) == ConfGet(c, "csrfToken", Null)
setCsrfToken(c, value) == ConfSet(c, "csrfToken", value)
clearCsrfToken(c) == ConfDelete(c, "csrfToken")
getLocation(c) == ConfGet(c, "location", Null)
\* setLocation(city, country = null): conf.set("location", { city, country })
setLocation(c, city, country) ==
  ConfSet(c, "location", [city |-> city, country |-> country])

----------------------------------------------------------------------------
(* HTTP client adapter: pure parts *)

\* base.replace(/\/$/, "")
StripTrailingSlash(s) ==
  IF Len(s) > 0 /\ s[Len(s)] = "/" THEN SubSeq(s, 1, Len(s) - 1) ELSE s

\* path.replace(/^\//, "")
StripLeadingSlash(s) ==
  IF Len(s) > 0 /\ s[1] = "/" THEN SubSeq(s, 2, Len(s)) ELSE s

\* joinUrl that leaves the path as it is
joinUrlKeepsPath(base, path) ==
  IF base = << >> THEN path
  ELSE StripTrailingSlash(base) \o <<"/">> \o path

joinUrl(base, path) ==
  IF base = << >> THEN path
  ELSE StripTrailingSlash(base) \o <<"/">> \o StripLeadingSlash(path)

\* the end of the longest run of non-';' characters starting at i
RECURSIVE RunEnd(_, _)
RunEnd(s, i) ==
  IF i + 1 <= Len(s) /\ s[i + 1] # ";" THEN RunEnd(s, i + 1) ELSE i

\* /connect\.sid=[^;]+/ can match at position i
SidMatchesAt(s, i) ==
  /\ IsPrefixAt(SidName, s, i)
  /\ i + Len(SidName) <= Len(s)
  /\ s[i + Len(SidName)] # ";"

\* setCookie.match(/connect\.sid=[^;]+/): Null, or Some(match[0]), the
\* leftmost match, extended greedily
SidMatch(s) ==
  LET hits == {i \in 1..Len(s) : SidMatchesAt(s, i)}
  IN  IF hits = {} THEN Null
      ELSE LET i == CHOOSE k \in hits : \A m \in hits : k <= m
           IN  Some(SubSeq(s, i, RunEnd(s, i + Len(SidName))))

----------------------------------------------------------------------------
(* HTTP client adapter: requests *)

Methods == {"GET", "POST", "DELETE", "PUT", "PATCH"}
SafeMethods == {"GET", "HEAD", "OPTIONS"}

\* the method as the template literal of each operation spells it
MethodText(m) ==
  CASE m = "GET" -> <<"G","E","T">>
    [] m = "POST" -> <<"P","O","S","T">>
    [] m = "DELETE" -> <<"D","E","L","E","T","E">>
    [] m = "PUT" -> <<"P","U","T">>
    [] m = "PATCH" -> <<"P","A","T","C","H">>

\* getHeaders() without the Cookie header
getHeadersNoCookie(c) ==
  [contentType |-> Some(AppJson), cookie |-> Null]

\* getHeaders(): Content-Type always, Cookie when the stored cookie is truthy
getHeaders(c) ==
  [contentType |-> Some(AppJson),
   cookie |-> IF Truthy(getSessionCookie(c)) THEN getSessionCookie(c) ELSE Null]

\* the token attached to POST alone
csrfHeaderPostOnly(c, method) ==
  IF method = "POST" /\ Truthy(getCsrfToken(c))
  THEN getCsrfToken(c) ELSE Null

\* the x-csrf-token header of a request: the stored token on a non-safe
\* method, when one is stored
csrfHeader(c, method) ==
  IF method \notin SafeMethods /\ Truthy(getCsrfToken(c))
  THEN getCsrfToken(c) ELSE Null

\* the request an operation hands to fetch()
Request(c, method, path, site) ==
  [method |-> method,
   url |-> joinUrl(getApiBase(c), path),
   contentType |-> getHeaders(c).contentType,
   cookie |-> getHeaders(c).cookie,
   csrf |-> csrfHeader(c, method),
   site |-> site]

----------------------------------------------------------------------------
(* The remote service: the responses the model draws from *)

H1 == <<"c","o","n","n","e","c","t",".","s","i","d","=","s","1",";"," ","P","a","t","h","=","/">>
H2 == <<"t","h","e","m","e","=","x",","," ","c","o","n","n","e","c","t",".","s","i","d","=","s","2">>
H3 == <<"t","h","e","m","e","=","x",";"," ","P","a","t","h","=","/">>
H4 == <<"c","o","n","n","e","c","t",".","s","i","d","=",";"," ","M","a","x","-","A","g","e","=","0">>
SetCookies == {Null, Some(H1), Some(H2), Some(H3), Some(H4)}

CtJson == <<"a","p","p","l","i","c","a","t","i","o","n","/","j","s","o","n",";"," ","c","h","a","r","s","e","t","=","u","t","f","-","8">>
CtHtml == <<"t","e","x","t","/","h","t","m","l">>
ContentTypes == {Null, Some(CtJson), Some(CtHtml)}

BodyEmpty == << >>
BodyHtml == <<"<","h","t","m","l",">">>
BodyObj == <<"{","}">>
BodyUser == <<"{","\"","u","s","e","r","\"",":","\"","u","1","\"","}">>
BodyToken == <<"{","\"","c","s","r","f","T","o","k","e","n","\"",":","\"","t","1","\"","}">>
\* Null: the body stream fails while it is read
Bodies == {Null, Some(BodyEmpty), Some(BodyHtml), Some(BodyUser),
           Some(BodyToken)}

Statuses == {200, 401, 500}

StatusText(s) ==
  CASE s = 200 -> <<"O","K">>
    [] s = 401 -> <<"U","n","a","u","t","h","o","r","i","z","e","d">>
    [] s = 402 -> <<"P","a","y","m","e","n","t"," ","R","e","q","u","i","r","e","d">>
    [] s = 404 -> <<"N","o","t"," ","F","o","u","n","d">>
    [] s = 500 -> <<"I","n","t","e","r","n","a","l"," ","S","e","r","v","e","r"," ","E","r","r","o","r">>

Responses ==
  [status : Statuses, setCookie : SetCookies, contentType : ContentTypes,
   body : Bodies]

UserU1 == <<"u","1">>
TokenT1 == <<"t","1">>

\* the products the service knows; a response body names them by id
Catalog ==
  <<[id |-> 1, name |-> <<"b">>, price |-> <<"5">>],
    [id |-> 2, name |-> <<"A">>, price |-> <<"9", ".", "5">>],
    [id |-> 3, name |-> <<"a">>, price |-> <<"5">>],
    [id |-> 4, name |-> <<"C">>, price |-> <<"1", "0">>]>>

\* the digit a product id is written with
IdDigit(i) == Digits[i + 1]

\* a JSON array of products, each written as its id: "[13]"
ListBody(ids) == <<"[">> \o [k \in 1..Len(ids) |-> IdDigit(ids[k])] \o <<"]">>

IsListBody(text) ==
  /\ Len(text) >= 2
  /\ text[1] = "["
  /\ text[Len(text)] = "]"
  /\ \A k \in 2..(Len(text) - 1) : \E i \in 1..Len(Catalog) : text[k] = IdDigit(i)

\* the array a list body parses to
ListOf(text) ==
  [k \in 1..(Len(text) - 2) |->
     Catalog[CHOOSE i \in 1..Len(Catalog) : text[k + 1] = IdDigit(i)]]

\* the texts of the answers to buy, ai run and the validating commands
BodyNull == <<"n","u","l","l">>
BodyProduct == <<"{","\"","i","d","\"",":","1",",","\"","s","l","u","g","\"",":","\"","s","\"",",","\"","b","u","y","U","r","l","\"",":","\"","b","?","x","\"","}">>
BodyProductExternal == <<"{","\"","i","d","\"",":","1",",","\"","e","x","t","e","r","n","a","l","U","r","l","\"",":","\"","e","\"","}">>
BodyProductBare == <<"{","\"","i","d","\"",":","1",",","\"","s","l","u","g","\"",":","\"","s","\"","}">>
BodyOffer == <<"{","\"","b","u","y","U","r","l","\"",":","\"","o","\"","}">>
BodyIntent == <<"{","\"","i","n","t","e","n","t","I","d","\"",":","7","}">>
BodyChatKit == <<"{","\"","h","a","s","C","h","a","t","K","i","t","\"",":","t","r","u","e","}">>
BodyResponseR1 == <<"{","\"","r","e","s","p","o","n","s","e","I","d","\"",":","\"","r","1","\"","}">>
BodyResponseR2 == <<"{","\"","r","e","s","p","o","n","s","e","I","d","\"",":","\"","r","2","\"","}">>
BodyResponseEmptyId == <<"{","\"","r","e","s","p","o","n","s","e","I","d","\"",":","\"","\"","}">>
ResponseR1 == <<"r","1">>
ResponseR2 == <<"r","2">>
BodyInsufficient == <<"{","\"","e","r","r","o","r","\"",":","\"","I","n","s","u","f","f","i","c","i","e","n","t"," ","c","r","e","d","i","t","s","\"","}">>
BodyAuthenticated == <<"{","\"","i","s","A","u","t","h","e","n","t","i","c","a","t","e","d","\"",":","t","r","u","e","}">>

UrlB == <<"b","?","x">>
UrlE == <<"e">>
UrlO == <<"o">>
SlugS == <<"s">>

\* a parsed JSON value: the fields the handlers read, absent ones Null;
\* isNull marks the JSON value null
NoValue ==
  [sentinel |-> FALSE, user |-> Null, csrfToken |-> Null, products |-> Null,
   isNull |-> FALSE, id |-> Null, slug |-> Null, buyUrl |-> Null,
   externalUrl |-> Null, intentId |-> Null, hasChatKit |-> FALSE,
   isAuthenticated |-> FALSE, responseId |-> Null]
Sentinel == [NoValue EXCEPT !.sentinel = TRUE]

\* JSON.parse of a body text: Null when the text is not JSON
JsonParse(text) ==
  CASE text = BodyObj -> Some(NoValue)
    [] text = BodyUser -> Some([NoValue EXCEPT !.user = Some(UserU1)])
    [] text = BodyToken -> Some([NoValue EXCEPT !.csrfToken = Some(TokenT1)])
    [] IsListBody(text) -> Some([NoValue EXCEPT !.products = Some(ListOf(text))])
    [] text = BodyNull -> Some([NoValue EXCEPT !.isNull = TRUE])
    [] text = BodyProduct ->
         Some([NoValue EXCEPT !.id = Some(1), !.slug = Some(SlugS),
                              !.buyUrl = Some(UrlB)])
    [] text = BodyProductExternal ->
         Some([NoValue EXCEPT !.id = Some(1), !.externalUrl = Some(UrlE)])
    [] text = BodyProductBare ->
         Some([NoValue EXCEPT !.id = Some(1), !.slug = Some(SlugS)])
    [] text = BodyOffer -> Some([NoValue EXCEPT !.buyUrl = Some(UrlO)])
    [] text = BodyIntent -> Some([NoValue EXCEPT !.intentId = Some(7)])
    [] text = BodyChatKit -> Some([NoValue EXCEPT !.hasChatKit = TRUE])
    [] text = BodyInsufficient -> Some(NoValue)
    [] text = BodyResponseR1 -> Some([NoValue EXCEPT !.responseId = Some(ResponseR1)])
    [] text = BodyResponseR2 -> Some([NoValue EXCEPT !.responseId = Some(ResponseR2)])
    [] text = BodyResponseEmptyId -> Some([NoValue EXCEPT !.responseId = Some(<< >>)])
    [] text = BodyAuthenticated -> Some([NoValue EXCEPT !.isAuthenticated = TRUE])
    [] OTHER -> Null

----------------------------------------------------------------------------
(* HTTP client adapter: responses *)

\* saveCookies that stores the whole Set-Cookie header
saveCookiesWholeHeader(c, r) ==
  IF Truthy(r.setCookie) THEN setSessionCookie(c, Val(r.setCookie)) ELSE c

\* saveCookies(response)
saveCookies(c, r) ==
  IF Truthy(r.setCookie)
  THEN LET match == SidMatch(Val(r.setCookie))
       IN  IF match # Null THEN setSessionCookie(c, Val(match)) ELSE c
  ELSE c

\* res.ok
ResOk(r) == r.status >= 200 /\ r.status <= 299

\* await res.text().catch(() => "")
ResText(r) == IF r.body = Null THEN << >> ELSE Val(r.body)

\* res.json(): Null when it rejects
ResJson(r) == IF r.body = Null THEN Null ELSE JsonParse(Val(r.body))

\* res.headers.get("content-type") || ""
ResContentType(r) ==
  IF Truthy(r.contentType) THEN Val(r.contentType) ELSE << >>

NoRet == [kind |-> "none", value |-> NoValue, message |-> << >>]
Returned(v) == [kind |-> "value", value |-> v, message |-> << >>]
Thrown(msg) == [kind |-> "error", value |-> NoValue, message |-> msg]

\* the message of the SyntaxError res.json() rejects with
JsonErrorText == <<"U","n","e","x","p","e","c","t","e","d"," ","t","o","k","e","n">>
\* the message of the FetchError fetch() rejects with
NetErrorText == <<"f","e","t","c","h"," ","f","a","i","l","e","d">>

\* `${M} ${url} failed: ${res.status} ${res.statusText}${text ? " — " + text : ""}`
HttpErrorText(m, url, r) ==
  MethodText(m) \o <<" ">> \o url \o <<" ","f","a","i","l","e","d",":"," ">>
    \o DecStr(r.status) \o <<" ">> \o StatusText(r.status)
    \o (IF ResText(r) # << >> THEN <<" ", EmDash, " ">> \o ResText(r) ELSE << >>)

\* return res.json()
JsonOrThrow(r) ==
  IF ResJson(r) = Null THEN Thrown(JsonErrorText) ELSE Returned(Val(ResJson(r)))

\* const ct = ...; if (ct.includes("application/json")) return res.json();
\* return { ok: true }
JsonIfDeclared(r) ==
  IF Includes(ResContentType(r), AppJson) THEN JsonOrThrow(r)
  ELSE Returned(Sentinel)

\* what each operation produces from the response, after saveCookies
apiGetResult(url, r) ==
  IF ~ResOk(r) THEN Thrown(HttpErrorText("GET", url, r)) ELSE JsonOrThrow(r)

apiPostResult(url, r) ==
  IF ~ResOk(r) THEN Thrown(HttpErrorText("POST", url, r)) ELSE JsonIfDeclared(r)

\* apiDelete without the content-type test
apiDeleteResultAlwaysJson(url, r) ==
  IF ~ResOk(r) THEN Thrown(HttpErrorText("DELETE", url, r)) ELSE JsonOrThrow(r)

apiDeleteResult(url, r) ==
  IF ~ResOk(r) THEN Thrown(HttpErrorText("DELETE", url, r)) ELSE JsonIfDeclared(r)

apiPutResult(url, r) ==
  IF ~ResOk(r) THEN Thrown(HttpErrorText("PUT", url, r)) ELSE JsonIfDeclared(r)

\* apiPatch with the template literal of apiPost
apiPatchResultAsPost(url, r) ==
  IF ~ResOk(r) THEN Thrown(HttpErrorText("POST", url, r)) ELSE JsonIfDeclared(r)

apiPatchResult(url, r) ==
  IF ~ResOk(r) THEN Thrown(HttpErrorText("PATCH", url, r)) ELSE JsonIfDeclared(r)

----------------------------------------------------------------------------
(* HTTP client adapter: actions *)

InFlight == call # Null

\* saveCookies only after the res.ok test has passed
ResponseArrivesSaveOnOk(m, r, result) ==
  /\ InFlight
  /\ Val(call).method = m
  /\ conf' = IF ResOk(r) THEN saveCookies(conf, r) ELSE conf
  /\ ret' = result
  /\ resp' = Some(r)
  /\ call' = Null
  /\ UNCHANGED <<cmd, pc, sent, ncalls, exitCode, out, harness>>

\* a response that is not ok makes the operation fetch again
ResponseArrivesRetry(m, r, result) ==
  /\ InFlight
  /\ Val(call).method = m
  /\ conf' = saveCookies(conf, r)
  /\ IF ResOk(r)
     THEN ret' = result /\ resp' = Some(r) /\ call' = Null /\ sent' = sent
     ELSE ret' = ret /\ resp' = resp /\ call' = call
          /\ sent' = Append(sent, Val(call))
  /\ UNCHANGED <<cmd, pc, ncalls, exitCode, out, harness>>

\* the response of the request in flight arrives at operation m: saveCookies,
\* then the operation returns or throws
ResponseArrives(m, r, result) ==
  /\ InFlight
  /\ Val(call).method = m
  /\ conf' = saveCookies(conf, r)
  /\ ret' = result
  /\ resp' = Some(r)
  /\ call' = Null
  /\ UNCHANGED <<cmd, pc, sent, ncalls, exitCode, out, harness>>

ApiGetReturn ==
  \E r \in Responses : ResponseArrives("GET", r, apiGetResult(Val(call).url, r))

ApiPostReturn ==
  \E r \in Responses : ResponseArrives("POST", r, apiPostResult(Val(call).url, r))

ApiDeleteReturn ==
  \E r \in Responses : ResponseArrives("DELETE", r, apiDeleteResult(Val(call).url, r))

ApiPutReturn ==
  \E r \in Responses : ResponseArrives("PUT", r, apiPutResult(Val(call).url, r))

ApiPatchReturn ==
  \E r \in Responses : ResponseArrives("PATCH", r, apiPatchResult(Val(call).url, r))

\* fetch() rejects (DNS, connection refused): the operation throws, no
\* response is seen
FetchRejects ==
  /\ InFlight
  /\ ret' = Thrown(NetErrorText)
  /\ resp' = Null
  /\ call' = Null
  /\ UNCHANGED <<conf, cmd, pc, sent, ncalls, exitCode, out, harness>>

----------------------------------------------------------------------------
(* Command handlers (bin/tm.js) *)

PathRegister == <<"/","a","u","t","h","/","r","e","g","i","s","t","e","r">>
PathLogin == <<"/","a","u","t","h","/","l","o","g","i","n">>
PathLogout == <<"/","a","u","t","h","/","l","o","g","o","u","t">>
PathCsrfToken == <<"/","a","u","t","h","/","c","s","r","f","-","t","o","k","e","n">>
PathInviteLink == <<"/","i","n","v","i","t","e","/","l","i","n","k">>

ApiBases == {LocalApiBase}

\* no command is running: a new process may start
Idle == pc \in {"idle", "done"} /\ ~InFlight

\* the handler is resumed at `site` with the operation's outcome in ret
ResumedAt(site) == pc = site /\ ~InFlight

\* an adapter operation is entered with store c: one fetch, and the handler
\* awaits at `site`
ApiEnter(log, n, c, method, path, site) ==
  LET q == Request(c, method, path, site)
  IN  /\ call' = Some(q)
      /\ sent' = Append(log, q)
      /\ ncalls' = n + 1
      /\ ret' = NoRet
      /\ resp' = Null
      /\ pc' = site

\* a fresh process runs command c and reaches its first adapter operation
StartWith(c, method, path, site) ==
  /\ Idle
  /\ cmd' = c
  /\ exitCode' = 0
  /\ out' = ""
  /\ ApiEnter(<< >>, 0, conf, method, path, site)
  /\ UNCHANGED <<conf, harness>>

\* the handler ends: what it printed and the exit code it leaves; the
\* operation's outcome goes out of scope with the handler
Finish(o, code) ==
  /\ pc' = "done"
  /\ out' = o
  /\ exitCode' = code
  /\ ret' = NoRet
  /\ resp' = Null
  /\ UNCHANGED <<cmd, call, sent, ncalls, harness>>

\* fetchCsrfToken(): GET /auth/csrf-token, and the token of the answer is
\* stored
fetchCsrfTokenStore(c, rt) ==
  IF rt.kind = "value" /\ Truthy(rt.value.csrfToken)
  THEN setCsrfToken(c, Val(rt.value.csrfToken))
  ELSE c

\* tm config set api <value>, the value drawn from S
ConfigSetApiFrom(S) ==
  /\ Idle
  /\ \E v \in S : conf' = setApiBase(conf, v)
  /\ cmd' = "config set"
  /\ pc' = "done"
  /\ exitCode' = 0
  /\ out' = "api"
  /\ sent' = << >>
  /\ ncalls' = 0
  /\ ret' = NoRet
  /\ resp' = Null
  /\ UNCHANGED <<call, harness>>

ConfigSetApi == ConfigSetApiFrom(ApiBases)

\* tm register: up to `await apiPost("/auth/register", ...)`
RegisterStart == StartWith("register", "POST", PathRegister, "register")

\* tm register: after the POST, with a catch that drops the cached user and
\* the CSRF token
RegisterAfterPostClears ==
  /\ ResumedAt("register")
  /\ IF ret.kind = "value"
     THEN IF Truthy(ret.value.user)
          THEN LET c2 == setUser(conf, Val(ret.value.user))
               IN  /\ conf' = c2
                   /\ ApiEnter(sent, ncalls, c2, "GET", PathCsrfToken, "register.csrf")
                   /\ out' = "welcome"
                   /\ UNCHANGED <<cmd, exitCode, harness>>
          ELSE Finish("please login", 0) /\ UNCHANGED conf
     ELSE Finish("error", 1) /\ conf' = clearCsrfToken(clearUser(conf))

\* tm register: after the POST
RegisterAfterPost ==
  /\ ResumedAt("register")
  /\ IF ret.kind = "value"
     THEN IF Truthy(ret.value.user)
          THEN LET c2 == setUser(conf, Val(ret.value.user))
               IN  /\ conf' = c2
                   /\ ApiEnter(sent, ncalls, c2, "GET", PathCsrfToken, "register.csrf")
                   /\ out' = "welcome"
                   /\ UNCHANGED <<cmd, exitCode, harness>>
          ELSE Finish("please login", 0) /\ UNCHANGED conf
     ELSE Finish("error", 1) /\ UNCHANGED conf

\* tm register: after fetchCsrfToken()
RegisterAfterCsrf ==
  /\ ResumedAt("register.csrf")
  /\ conf' = fetchCsrfTokenStore(conf, ret)
  /\ \E propagates \in BOOLEAN :
       IF ret.kind = "error" /\ propagates
       THEN Finish("error", 1) ELSE Finish("welcome", 0)

\* tm login: up to `await apiPost("/auth/login", ...)`
LoginStart == StartWith("login", "POST", PathLogin, "login")

\* tm login: after the POST, without fetchCsrfToken()
LoginAfterPostNoCsrf ==
  /\ ResumedAt("login")
  /\ IF ret.kind = "value"
     THEN /\ conf' = IF Truthy(ret.value.user)
                     THEN setUser(conf, Val(ret.value.user)) ELSE conf
          /\ Finish("welcome back", 0)
     ELSE Finish("error", 1) /\ UNCHANGED conf

\* tm login: after the POST
LoginAfterPost ==
  /\ ResumedAt("login")
  /\ IF ret.kind = "value"
     THEN LET c2 == IF Truthy(ret.value.user)
                    THEN setUser(conf, Val(ret.value.user)) ELSE conf
          IN  /\ conf' = c2
              /\ ApiEnter(sent, ncalls, c2, "GET", PathCsrfToken, "login.csrf")
              /\ out' = "welcome back"
              /\ UNCHANGED <<cmd, exitCode, harness>>
     ELSE Finish("error", 1) /\ UNCHANGED conf

\* tm login: after fetchCsrfToken()
LoginAfterCsrf ==
  /\ ResumedAt("login.csrf")
  /\ conf' = fetchCsrfTokenStore(conf, ret)
  /\ \E propagates \in BOOLEAN :
       IF ret.kind = "error" /\ propagates
       THEN Finish("error", 1) ELSE Finish("welcome back", 0)

\* tm logout: up to `await apiPost("/auth/logout", {})`
LogoutStart == StartWith("logout", "POST", PathLogout, "logout")

\* a catch branch that leaves the session cookie
LogoutCatchKeepsSession(c) == clearCsrfToken(clearUser(c))

\* the try branch of logout
LogoutTry(c) == clearCsrfToken(clearSession(clearUser(c)))
\* the catch branch of logout
LogoutCatch(c) == clearCsrfToken(clearSession(clearUser(c)))

\* tm logout: after the POST
LogoutAfterPost ==
  /\ ResumedAt("logout")
  /\ IF ret.kind = "value"
     THEN conf' = LogoutTry(conf) /\ Finish("Logged out successfully.", 0)
     ELSE conf' = LogoutCatch(conf) /\ Finish("Logged out.", 0)

\* a command of one adapter call inside try/catch (tm invite --link, and the
\* like for the other operations)
OtherStart ==
  \E m \in Methods : StartWith("other", m, PathInviteLink, "other")

\* a handler that drops the cached user when its call fails
OtherAfterCallDropsUser ==
  /\ ResumedAt("other")
  /\ IF ret.kind = "value"
     THEN UNCHANGED conf /\ Finish("ok", 0)
     ELSE conf' = clearUser(conf) /\ Finish("error", 1)

OtherAfterCall ==
  /\ ResumedAt("other")
  /\ UNCHANGED conf
  /\ IF ret.kind = "value" THEN Finish("ok", 0) ELSE Finish("error", 1)

----------------------------------------------------------------------------
(* The session and adapter specification *)

\* no search has run
NoSearch ==
  [opts |-> Null, path |-> "none", fetched |-> << >>, sorted |-> << >>,
   list |-> << >>,
   printed |-> [kind |-> "none", n |-> 0, rows |-> << >>]]

\* no handler with local variables has run
NoLocals == [kind |-> "none"]

HarnessIdle ==
  /\ jbase = << >>
  /\ jpath = << >>
  /\ jurl = Null
  /\ sx = NoSearch
  /\ loc = NoLocals

Init ==
  /\ conf = [k \in ConfKeys |-> Null]
  /\ cmd = "none"
  /\ pc = "idle"
  /\ call = Null
  /\ resp = Null
  /\ ret = NoRet
  /\ sent = << >>
  /\ ncalls = 0
  /\ exitCode = 0
  /\ out = ""
  /\ HarnessIdle

Next ==
  \/ ConfigSetApi
  \/ RegisterStart
  \/ RegisterAfterPost
  \/ RegisterAfterCsrf
  \/ LoginStart
  \/ LoginAfterPost
  \/ LoginAfterCsrf
  \/ LogoutStart
  \/ LogoutAfterPost
  \/ OtherStart
  \/ OtherAfterCall
  \/ ApiGetReturn
  \/ ApiPostReturn
  \/ ApiDeleteReturn
  \/ ApiPutReturn
  \/ ApiPatchReturn
  \/ FetchRejects

Spec == Init /\ [][Next]_vars

----------------------------------------------------------------------------
(* Claims about the session and the adapter, under Spec *)

\* an adapter operation has just returned or thrown on a response, and the
\* handler has not yet run on
AfterResponse == ~InFlight /\ resp # Null /\ pc \notin {"idle", "done"}

\* the request the last adapter operation sent
LastSent == sent[Len(sent)]

Anonymous ==
  /\ conf.sessionCookie = Null
  /\ conf.csrfToken = Null
  /\ conf.user = Null

Authenticated ==
  /\ conf.sessionCookie # Null
  /\ conf.csrfToken # Null

\* C1: once logout has completed, the session cookie, the CSRF token and
\* the cached user are absent, whether POST /auth/logout succeeded or failed
\* and whatever Set-Cookie its response carried.
C1_LogoutClearsLocalState ==
  (cmd = "logout" /\ pc = "done") => Anonymous

\* logout has completed through its catch branch, and the request it sent
\* shows that a cookie and a CSRF token were stored before
C1_Witness ==
  /\ cmd = "logout"
  /\ pc = "done"
  /\ out = "Logged out."
  /\ sent[1].cookie # Null
  /\ sent[1].csrf # Null
  /\ Anonymous

\* C2 (as stated): between commands the persisted session state is either
\* anonymous or authenticated, and nothing else.
C2_OnlyTwoConfigurations ==
  Idle => (Anonymous \/ Authenticated)

\* C2 (amended): the cached user and the CSRF token are set only by a
\* successful login or register and dropped only by logout, and logout always
\* ends anonymous; the session cookie itself follows any response.
C2_SessionTransitions ==
  [][ /\ (conf'.user # conf.user \/ conf'.csrfToken # conf.csrfToken)
         => cmd \in {"login", "register", "logout"}
      /\ (conf'.user # Null /\ conf'.user # conf.user)
         => (cmd \in {"login", "register"} /\ ret.kind = "value")
      /\ (conf'.csrfToken # Null /\ conf'.csrfToken # conf.csrfToken)
         => (pc \in {"login.csrf", "register.csrf"} /\ ret.kind = "value")
      /\ ((conf'.user = Null /\ conf.user # Null)
          \/ (conf'.csrfToken = Null /\ conf.csrfToken # Null))
         => cmd = "logout"
      /\ (cmd' = "logout" /\ pc' = "done") => Anonymous'
    ]_vars

\* a login has completed and left cookie, CSRF token and user stored
C2_Witness ==
  /\ cmd = "login"
  /\ pc = "done"
  /\ Authenticated
  /\ conf.user # Null

\* the places where a header holds a connect.sid=<value> pair: <<i, j>> with
\* the name at i and the value running up to j, the next ';' or the end
SessionPairs(h) ==
  {p \in (1..Len(h)) \X (1..Len(h)) :
     /\ IsPrefixAt(SidName, h, p[1])
     /\ p[2] >= p[1] + Len(SidName)
     /\ \A k \in (p[1] + Len(SidName))..p[2] : h[k] # ";"
     /\ (p[2] = Len(h) \/ h[p[2] + 1] = ";")}

\* C3: after any adapter operation whose response carried a Set-Cookie with
\* a session pair, the stored session cookie is that pair (the first one),
\* whatever the response status.
C3_CookieCaptured ==
  (AfterResponse /\ Val(resp).setCookie # Null) =>
    LET h == Val(Val(resp).setCookie)
    IN  SessionPairs(h) # {} =>
          \E p \in SessionPairs(h) :
            /\ \A o \in SessionPairs(h) : p[1] <= o[1]
            /\ conf.sessionCookie = Some(SubSeq(h, p[1], p[2]))

\* a PATCH was answered 401 with a session Set-Cookie, and the cookie is stored
C3_Witness ==
  /\ AfterResponse
  /\ LastSent.method = "PATCH"
  /\ Val(resp).status = 401
  /\ ret.kind = "error"
  /\ Val(resp).setCookie = Some(H2)
  /\ LastSent.cookie # conf.sessionCookie
  /\ conf.sessionCookie = Some(SidName \o <<"s", "2">>)

\* C4: a request in flight carries a Cookie header exactly when a session
\* cookie is stored, with the stored value verbatim.
C4_CookieHeader ==
  InFlight => Val(call).cookie = conf.sessionCookie

\* a request is in flight with the stored session cookie as its Cookie header
C4_Witness ==
  /\ InFlight
  /\ Val(call).cookie = Some(SidName \o <<"s", "1">>)
  /\ Val(call).method = "GET"

StatusDigits(s) ==
  CASE s = 200 -> <<"2", "0", "0">>
    [] s = 401 -> <<"4", "0", "1">>
    [] s = 500 -> <<"5", "0", "0">>

\* C6: on a response with a status outside 200-299 the operation fails with
\* '<METHOD> <url> failed: <status> <statusText>', followed by ' - <body>'
\* (an em dash) exactly when the body text is not empty.
C6_ErrorMessage ==
  (AfterResponse /\ ~(Val(resp).status \in 200..299)) =>
    LET r == Val(resp)
        head == MethodText(LastSent.method) \o <<" ">> \o LastSent.url
                  \o <<" ","f","a","i","l","e","d",":"," ">>
                  \o StatusDigits(r.status) \o <<" ">> \o StatusText(r.status)
    IN  /\ ret.kind = "error"
        /\ IF r.body \in {Null, Some(<< >>)}
           THEN ret.message = head
           ELSE ret.message = head \o <<" ", EmDash, " ">> \o Val(r.body)

\* a PUT was answered 500 with a body, and the error carries it
C6_Witness ==
  /\ AfterResponse
  /\ LastSent.method = "PUT"
  /\ Val(resp).status = 500
  /\ Val(resp).body = Some(BodyHtml)
  /\ Includes(ret.message, <<"5", "0", "0">>)
  /\ Includes(ret.message, <<EmDash, " ">> \o BodyHtml)

\* the response declares a JSON content type
DeclaresJson(r) ==
  r.contentType # Null /\ Includes(Val(r.contentType), AppJson)

\* C7 (as stated): for every operation a 2xx response is decoded as JSON
\* only if it declares a JSON content type, and resolves to { ok: true }
\* otherwise.
C7_JsonOnlyIfDeclared ==
  (AfterResponse /\ Val(resp).status \in 200..299) =>
    /\ ~DeclaresJson(Val(resp)) => ret = Returned(Sentinel)
    /\ (ret.kind = "value" /\ ~ret.value.sentinel) => DeclaresJson(Val(resp))

\* C7 (amended): post, patch, delete and put decode a 2xx response as JSON
\* only if it declares a JSON content type and resolve to { ok: true }
\* otherwise; get decodes every 2xx response as JSON and fails when the body
\* is not JSON.
C7_JsonOnlyIfDeclaredExceptGet ==
  (AfterResponse /\ Val(resp).status \in 200..299) =>
    IF LastSent.method = "GET"
    THEN IF Val(resp).body \in {Some(BodyUser), Some(BodyToken)}
         THEN ret.kind = "value" /\ ~ret.value.sentinel
         ELSE ret.kind = "error" /\ ret.message = JsonErrorText
    ELSE /\ ~DeclaresJson(Val(resp)) => ret = Returned(Sentinel)
         /\ (ret.kind = "value" /\ ~ret.value.sentinel)
              => DeclaresJson(Val(resp))

\* a DELETE was answered 200 with a JSON body under text/html, and resolved
\* to the sentinel
C7_Witness ==
  /\ AfterResponse
  /\ LastSent.method = "DELETE"
  /\ Val(resp).status = 200
  /\ Val(resp).contentType = Some(CtHtml)
  /\ Val(resp).body = Some(BodyUser)
  /\ ret = Returned(Sentinel)

\* C9: every adapter operation gives fetch() one request, failed or not:
\* the requests sent are as many as the operations invoked, and no call site
\* sends twice in one invocation.
C9_FireOnce ==
  /\ Len(sent) = ncalls
  /\ \A i, j \in 1..Len(sent) : sent[i].site = sent[j].site => i = j

\* a POST failed on a 500 and the operation has returned after one request
C9_Witness ==
  /\ AfterResponse
  /\ LastSent.method = "POST"
  /\ Val(resp).status = 500
  /\ ret.kind = "error"
  /\ Len(sent) = 1
  /\ ncalls = 1

----------------------------------------------------------------------------
(* joinUrl on every base and path of a bounded length: the base goes through
   `tm config set api`, the path through a call *)

MaxJoinLen == 3

JoinAlphabet == {"/", "a"}

\* the strings over JoinAlphabet of length up to MaxJoinLen
JoinStrings ==
  UNION {[1..n -> JoinAlphabet] : n \in 0..MaxJoinLen}

JoinConfigSet == ConfigSetApiFrom(JoinStrings)

\* const url = joinUrl(getApiBase(), path)
JoinCall ==
  /\ Idle
  /\ \E p \in JoinStrings :
       /\ jbase' = getApiBase(conf)
       /\ jpath' = p
       /\ jurl' = Some(joinUrl(getApiBase(conf), p))
  /\ UNCHANGED <<conf, cmd, pc, call, resp, ret, sent, ncalls, exitCode, out, sx, loc>>

JoinNext == JoinConfigSet \/ JoinCall

SpecJoin == Init /\ [][JoinNext]_vars

\* s without its trailing slashes
RECURSIVE TrimRight(_)
TrimRight(s) ==
  IF s # << >> /\ s[Len(s)] = "/" THEN TrimRight(SubSeq(s, 1, Len(s) - 1)) ELSE s

\* s without its leading slashes
RECURSIVE TrimLeft(_)
TrimLeft(s) ==
  IF s # << >> /\ s[1] = "/" THEN TrimLeft(Tail(s)) ELSE s

\* the url with one slash at the join: what precedes it does not end in a
\* slash and what follows does not start with one
OneSlashJoin(base, path) == TrimRight(base) \o <<"/">> \o TrimLeft(path)

\* C8 (as stated): for every configured apiBase and every path the url built
\* has exactly one slash between base and path.
C8_ExactlyOneSlash ==
  jurl # Null => Val(jurl) = OneSlashJoin(jbase, jpath)

\* C8 (amended): for every non-empty apiBase that ends in at most one slash
\* and every path that starts with at most one slash, the url built has
\* exactly one slash between base and path.
C8_ExactlyOneSlashUpToOne ==
  ( /\ jurl # Null
    /\ jbase # << >>
    /\ TrimRight(jbase) \in {jbase, StripTrailingSlash(jbase)}
    /\ TrimLeft(jpath) \in {jpath, StripLeadingSlash(jpath)} )
  => Val(jurl) = OneSlashJoin(jbase, jpath)

\* a base ending in a slash was joined with a path starting with one
C8_Witness ==
  /\ jbase = <<"a", "/">>
  /\ jpath = <<"/", "a">>
  /\ jurl = Some(<<"a", "/", "a">>)

----------------------------------------------------------------------------
(* tm search: parsing and the sort / head / count stages *)

Min(a, b) == IF a <= b THEN a ELSE b
Max(a, b) == IF a >= b THEN a ELSE b

IsDigit(c) == \E d \in 0..9 : Digits[d + 1] = c
DigitVal(c) == CHOOSE d \in 0..9 : Digits[d + 1] = c

\* the longest prefix of s made of digits
DigitRun(s) ==
  LET k == CHOOSE n \in 0..Len(s) :
             /\ \A i \in 1..n : IsDigit(s[i])
             /\ (n = Len(s) \/ ~IsDigit(s[n + 1]))
  IN  SubSeq(s, 1, k)

RECURSIVE NumOf(_)
NumOf(ds) ==
  IF ds = << >> THEN 0
  ELSE NumOf(SubSeq(ds, 1, Len(ds) - 1)) * 10 + DigitVal(ds[Len(ds)])

\* parseInt(s, 10): Null is NaN
ParseInt(s) ==
  LET neg == s # << >> /\ s[1] = "-"
      body == IF neg THEN Tail(s) ELSE s
      run == DigitRun(body)
  IN  IF run = << >> THEN Null
      ELSE Some(IF neg THEN 0 - NumOf(run) ELSE NumOf(run))

\* parseFloat(s) in tenths (one decimal is kept): Null is NaN
ParseFloat(s) ==
  LET neg == s # << >> /\ s[1] = "-"
      body == IF neg THEN Tail(s) ELSE s
      run == DigitRun(body)
      rest == SubSeq(body, Len(run) + 1, Len(body))
      frac == IF rest # << >> /\ rest[1] = "." THEN DigitRun(Tail(rest)) ELSE << >>
      tenths == NumOf(run) * 10 + (IF frac = << >> THEN 0 ELSE DigitVal(frac[1]))
  IN  IF run = << >> /\ frac = << >> THEN Null
      ELSE Some(IF neg THEN 0 - tenths ELSE tenths)

\* x || d for a number x: NaN and 0 give d
NumOr(o, d) == IF o = Null \/ Val(o) = 0 THEN d ELSE Val(o)

\* the characters names are written with, in code unit order
CharOrder ==
  <<"0", "1", "2", "3", "4", "5", "6", "7", "8", "9",
    "A", "B", "C", "a", "b", "c">>
Code(c) == CHOOSE i \in 1..Len(CharOrder) : CharOrder[i] = c

LowerChar(c) ==
  CASE c = "A" -> "a" [] c = "B" -> "b" [] c = "C" -> "c"
    [] c = "M" -> "m" [] c = "N" -> "n" [] c = "O" -> "o" [] OTHER -> c

\* String.prototype.toLowerCase
ToLower(str) == [i \in 1..Len(str) |-> LowerChar(str[i])]

\* a < b on strings
RECURSIVE StrLess(_, _)
StrLess(a, b) ==
  IF b = << >> THEN FALSE
  ELSE IF a = << >> THEN TRUE
  ELSE IF Code(a[1]) < Code(b[1]) THEN TRUE
  ELSE IF Code(a[1]) > Code(b[1]) THEN FALSE
  ELSE StrLess(Tail(a), Tail(b))

FieldPrice == <<"p","r","i","c","e">>
FieldName == <<"n","a","m","e">>

\* va < vb with the price taken as text
BeforeAsText(a, b, field) ==
  IF field = FieldPrice THEN StrLess(a.price, b.price)
  ELSE IF field = FieldName THEN StrLess(ToLower(a.name), ToLower(b.name))
  ELSE FALSE

\* va < vb for va = a[field], vb = b[field] after the comparator's coercions
Before(a, b, field) ==
  IF field = FieldPrice
  THEN NumOr(ParseFloat(a.price), 0) < NumOr(ParseFloat(b.price), 0)
  ELSE IF field = FieldName
  THEN StrLess(ToLower(a.name), ToLower(b.name))
  ELSE FALSE

\* the comparator given to sort()
Compare(a, b, field, desc) ==
  IF Before(a, b, field) THEN (IF desc THEN 1 ELSE 0 - 1)
  ELSE IF Before(b, a, field) THEN (IF desc THEN 0 - 1 ELSE 1)
  ELSE 0

\* Array.prototype.sort is stable: x goes behind everything not greater
RECURSIVE InsertStable(_, _, _, _)
InsertStable(x, L, field, desc) ==
  IF L = << >> THEN <<x>>
  ELSE IF Compare(Head(L), x, field, desc) > 0 THEN <<x>> \o L
  ELSE <<Head(L)>> \o InsertStable(x, Tail(L), field, desc)

RECURSIVE SortStable(_, _, _)
SortStable(L, field, desc) ==
  IF L = << >> THEN << >>
  ELSE InsertStable(L[Len(L)], SortStable(SubSeq(L, 1, Len(L) - 1), field, desc),
                    field, desc)

\* arr.slice(0, n)
SliceTo(L, n) ==
  SubSeq(L, 1, IF n < 0 THEN Max(Len(L) + n, 0) ELSE Min(n, Len(L)))

\* if (opts.sort) { ... products = [...products].sort(...) }
sortStage(products, sort) ==
  IF Truthy(sort)
  THEN LET desc == Val(sort)[1] = "-"
           field == IF desc THEN Tail(Val(sort)) ELSE Val(sort)
       IN  SortStable(products, field, desc)
  ELSE products

\* if (opts.head) products = products.slice(0, parseInt(opts.head, 10) || 5)
headStage(products, head) ==
  IF Truthy(head)
  THEN SliceTo(products, NumOr(ParseInt(Val(head)), 5))
  ELSE products

\* the stages in the other order: head on the fetched list, then sort
searchPipelineHeadFirst(products, sort, head) ==
  sortStage(headStage(products, head), sort)

\* the list the count and the table are taken from
searchPipeline(products, sort, head) ==
  headStage(sortStage(products, sort), head)

\* Math.max(1, Math.min(200, Number.parseInt(opts.limit, 10) || 20))
searchLimit(limit) == Max(1, Min(200, NumOr(ParseInt(limit), 20)))

\* String(opts.sort || opts.head || opts.count ? 200 : limit)
searchLimitParam(o) ==
  IF Truthy(o.sort) \/ Truthy(o.head) \/ o.count THEN 200 ELSE searchLimit(o.limit)

\* pickProductFields(p), the columns the model carries
pickProductFields(p) ==
  [id |-> p.id, name |-> p.name,
   price |-> IF p.price # << >> THEN <<"$">> \o p.price ELSE << >>]

\* containsQuery(p, q)
containsQuery(p, q) == Includes(ToLower(p.name), ToLower(q))

\* the count taken from the rows of the table
searchOutputCountsRows(products, o) ==
  IF o.count
  THEN [kind |-> "count", n |-> Len(SliceTo(products, searchLimit(o.limit))),
        rows |-> << >>]
  ELSE [kind |-> "table", n |-> 0,
        rows |-> [k \in 1..Len(SliceTo(products, searchLimit(o.limit))) |->
                    pickProductFields(products[k])]]

\* the count line, or the table of the first `limit` rows
searchOutput(products, o) ==
  IF o.count
  THEN [kind |-> "count", n |-> Len(products), rows |-> << >>]
  ELSE [kind |-> "table", n |-> 0,
        rows |-> [k \in 1..Len(SliceTo(products, searchLimit(o.limit))) |->
                    pickProductFields(products[k])]]

\* the table of the fallback path
fallbackOutput(products, o) ==
  LET matched == SelectSeq(products, LAMBDA p : containsQuery(p, o.query))
  IN  [kind |-> "table", n |-> 0,
       rows |-> [k \in 1..Len(SliceTo(matched, searchLimit(o.limit))) |->
                   pickProductFields(matched[k])]]

----------------------------------------------------------------------------
(* tm search: the handler *)

MaxProducts == 3

\* the ids of the lists the service may answer with: no product twice
IdLists ==
  UNION {{f \in [1..n -> 1..Len(Catalog)] :
            \A i, j \in 1..n : f[i] = f[j] => i = j} : n \in 0..MaxProducts}

SearchResponses ==
  [status : {200}, setCookie : {Null}, contentType : {Some(CtJson)},
   body : {Some(ListBody(ids)) : ids \in IdLists} \cup {Some(BodyHtml)}]
  \cup
  [status : {500}, setCookie : {Null}, contentType : {Some(CtHtml)},
   body : {Some(BodyEmpty)}]

SearchOptions ==
  [query : {<<"A">>},
   sort : {Null, Some(FieldPrice), Some(<<"-">> \o FieldPrice),
           Some(FieldName), Some(<<"-">> \o FieldName)},
   head : {Null, Some(<<"1">>), Some(<<"2">>), Some(<<"0">>), Some(<<"-", "1">>)},
   count : BOOLEAN,
   limit : {<<"2", "0">>, <<"2">>}]

PathSearch == <<"/","p","r","o","d","u","c","t","s","/","s","e","a","r","c","h">>
PathProducts == <<"/","p","r","o","d","u","c","t","s">>

\* `/products/search?${params.toString()}` with q and limit
searchPath(o) ==
  PathSearch \o <<"?","q","=">> \o o.query \o <<"&","l","i","m","i","t","=">> \o DecStr(searchLimitParam(o))

\* tm search <query>: up to `await apiGet("/products/search?...")`
SearchStart ==
  /\ Idle
  /\ \E o \in SearchOptions :
       /\ sx' = [NoSearch EXCEPT !.opts = Some(o)]
       /\ ApiEnter(<< >>, 0, conf, "GET", searchPath(o), "search")
  /\ cmd' = "search"
  /\ exitCode' = 0
  /\ out' = ""
  /\ UNCHANGED <<conf, jbase, jpath, jurl, loc>>

\* the answers to search's requests
SearchApiGetReturn ==
  \E r \in SearchResponses : ResponseArrives("GET", r, apiGetResult(Val(call).url, r))

\* tm search: after the search call; a throw enters the fallback
SearchAfterGet ==
  /\ ResumedAt("search")
  /\ LET o == Val(sx.opts)
     IN  IF ret.kind = "value" /\ ret.value.products # Null
         THEN LET fetched == Val(ret.value.products)
                  products == searchPipeline(fetched, o.sort, o.head)
              IN  /\ sx' = [sx EXCEPT !.path = "server", !.fetched = fetched,
                                      !.sorted = sortStage(fetched, o.sort),
                                      !.list = products,
                                      !.printed = searchOutput(products, o)]
                  /\ pc' = "done"
                  /\ out' = IF o.count THEN "count" ELSE "table"
                  /\ ret' = NoRet
                  /\ resp' = Null
                  /\ UNCHANGED <<conf, cmd, call, sent, ncalls, exitCode,
                                 jbase, jpath, jurl, loc>>
         ELSE /\ ApiEnter(sent, ncalls, conf, "GET", PathProducts, "search.fallback")
              /\ UNCHANGED <<conf, cmd, exitCode, out, harness>>

\* tm search: after the fallback call
SearchAfterFallback ==
  /\ ResumedAt("search.fallback")
  /\ LET o == Val(sx.opts)
     IN  IF ret.kind = "value" /\ ret.value.products # Null
         THEN /\ sx' = [sx EXCEPT !.path = "fallback",
                                  !.fetched = Val(ret.value.products),
                                  !.list = SelectSeq(Val(ret.value.products),
                                             LAMBDA p : containsQuery(p, o.query)),
                                  !.printed = fallbackOutput(Val(ret.value.products), o)]
              /\ pc' = "done"
              /\ out' = "table"
              /\ exitCode' = exitCode
         ELSE /\ sx' = [sx EXCEPT !.path = "failed"]
              /\ pc' = "done"
              /\ out' = "error"
              /\ exitCode' = 1
  /\ ret' = NoRet
  /\ resp' = Null
  /\ UNCHANGED <<conf, cmd, call, sent, ncalls, jbase, jpath, jurl, loc>>

SearchNext ==
  \/ SearchStart
  \/ SearchApiGetReturn
  \/ SearchAfterGet
  \/ SearchAfterFallback
  \/ FetchRejects

SpecSearch == Init /\ [][SearchNext]_vars

----------------------------------------------------------------------------
(* Claims about tm search, under SpecSearch *)

SearchDone == pc = "done" /\ cmd = "search" /\ sx.path = "server"

\* every order the products of L can be put in
Arrangements(L) ==
  {S \in [1..Len(L) -> {L[i] : i \in 1..Len(L)}] :
     \A i, j \in 1..Len(L) : S[i] = S[j] => i = j}

PositionIn(L, p) == CHOOSE i \in 1..Len(L) : L[i] = p

\* a goes strictly before b in the order --sort asks for
GoesBefore(a, b, sort) ==
  LET desc == sort[1] = "-"
      field == IF desc THEN Tail(sort) ELSE sort
  IN  IF desc THEN Before(b, a, field) ELSE Before(a, b, field)

\* S is L in the order --sort asks for, ties in the order of L
IsSortedFrom(S, L, sort) ==
  \A i, j \in 1..Len(S) :
    i < j => /\ ~GoesBefore(S[j], S[i], sort)
             /\ (~GoesBefore(S[i], S[j], sort)
                   => PositionIn(L, S[i]) < PositionIn(L, S[j]))

\* C10: on the server path of tm search the stages run in the order sort,
\* head, count: the list the output is taken from is the head of the fetched
\* list put in sort order (the whole of it without --head, the fetched order
\* without --sort), and the integer --count prints is the length of that list,
\* after sort and head.
C10_SortHeadCount ==
  SearchDone =>
    LET o == Val(sx.opts)
    IN  \E S \in Arrangements(sx.fetched) :
          /\ IF Truthy(o.sort) THEN IsSortedFrom(S, sx.fetched, Val(o.sort))
                               ELSE S = sx.fetched
          /\ sx.list = headStage(S, o.head)
          /\ o.count => sx.printed = [kind |-> "count", n |-> Len(sx.list),
                                      rows |-> << >>]
          /\ ~o.count => sx.printed.kind = "table"

\* a search with --sort, --head and --count where the sort changed the order,
\* the head dropped products, and the head of the fetched list holds another
\* product than the head of the sorted one
C10_Witness ==
  /\ SearchDone
  /\ Truthy(Val(sx.opts).sort) /\ Truthy(Val(sx.opts).head) /\ Val(sx.opts).count
  /\ Len(sx.fetched) = 3
  /\ Len(sx.list) = 2
  /\ sx.printed.kind = "count" /\ sx.printed.n = 2
  /\ \E i \in 1..2 : \A j \in 1..2 : sx.list[i] # sx.fetched[j]

FallbackDone == pc = "done" /\ cmd = "search" /\ sx.path = "fallback"

\* C11: a list obtained on the fallback path (GET /products and the
\* client-side match) goes through the same sort, head and count stages as a
\* list of the server path: what search prints is the output of the stages
\* applied to the matched list under the same flags.
C11_FallbackSameStages ==
  FallbackDone =>
    LET o == Val(sx.opts)
    IN  sx.printed = searchOutput(searchPipeline(sx.list, o.sort, o.head), o)

\* the price the comparator compares, in tenths
PriceOf(p) == NumOr(ParseFloat(p.price), 0)

\* how often p occurs in L
CountIn(L, p) == Cardinality({i \in 1..Len(L) : L[i] = p})

SortedByPrice == Val(sx.opts).sort \in {Some(FieldPrice), Some(<<"-">> \o FieldPrice)}

\* C12: the list sorted by 'price' or by '-price' holds the same multiset of
\* items as the fetched list, its prices (as floats) are non-decreasing for
\* 'price' and non-increasing for '-price', and items of equal price keep
\* their input order.
C12_PriceSortStable ==
  (SearchDone /\ SortedByPrice) =>
    LET S == sx.sorted
        L == sx.fetched
        asc == Val(sx.opts).sort = Some(FieldPrice)
    IN  /\ Len(S) = Len(L)
        /\ \A i \in 1..Len(L) : CountIn(S, L[i]) = CountIn(L, L[i])
        /\ \A i, j \in 1..Len(S) :
             i < j => /\ asc => PriceOf(S[i]) <= PriceOf(S[j])
                      /\ ~asc => PriceOf(S[i]) >= PriceOf(S[j])
                      /\ PriceOf(S[i]) = PriceOf(S[j])
                           => PositionIn(L, S[i]) < PositionIn(L, S[j])

\* a '-price' sort that moved items and kept two items of equal price, the
\* price "10" above "9.5" and "5"
C12_Witness ==
  /\ SearchDone
  /\ Val(sx.opts).sort = Some(<<"-">> \o FieldPrice)
  /\ Len(sx.sorted) = 3
  /\ sx.sorted # sx.fetched
  /\ sx.sorted[1] = Catalog[4]
  /\ PriceOf(sx.sorted[2]) = PriceOf(sx.sorted[3])

\* C13: for every integer n given to --head, the list after the head stage
\* is the prefix of the sorted list of length min(n, len).
C13_HeadIsMinPrefix ==
  (SearchDone /\ Truthy(Val(sx.opts).head)
              /\ ParseInt(Val(Val(sx.opts).head)) # Null) =>
    LET n == Val(ParseInt(Val(Val(sx.opts).head)))
    IN  sx.list = SubSeq(sx.sorted, 1, Min(n, Len(sx.sorted)))

\* the rows search shows for the same list without --count
RowsWithoutCount ==
  searchOutput(sx.list, [Val(sx.opts) EXCEPT !.count = FALSE]).rows

\* C14: in count mode search prints no table and an integer equal to the
\* length of the list the same run would display without --count.
C14_CountIsDisplayedLength ==
  (SearchDone /\ Val(sx.opts).count) =>
    /\ sx.printed.kind = "count"
    /\ sx.printed.rows = << >>
    /\ sx.printed.n = Len(RowsWithoutCount)

\* C14 (amended): in count mode search prints no table and the length of the
\* list after sort and head; the table shown without --count holds the first
\* `limit` items of that list, so it has min(count, limit) rows.
C14_CountIsListLength ==
  (SearchDone /\ Val(sx.opts).count) =>
    /\ out = "count"
    /\ sx.printed.kind = "count"
    /\ sx.printed.rows = << >>
    /\ sx.printed.n = Len(sx.list)
    /\ Len(RowsWithoutCount) = Min(sx.printed.n, searchLimit(Val(sx.opts).limit))

\* a count of three with --limit 2
C14_Witness ==
  /\ SearchDone
  /\ Val(sx.opts).count
  /\ Val(sx.opts).limit = <<"2">>
  /\ sx.printed.kind = "count"
  /\ sx.printed.n = 3
  /\ Len(RowsWithoutCount) = 2

----------------------------------------------------------------------------
(* tm buy: lookup by id, then by slug; offer; intent; click; open *)

\* the state of the harnesses a handler with local variables leaves alone
others == <<jbase, jpath, jurl, sx>>

\* encodeURIComponent, on the characters the arguments are written with
EncodeChar(c) ==
  CASE c = " " -> <<"%", "2", "0">>
    [] c = "/" -> <<"%", "2", "F">>
    [] c = "?" -> <<"%", "3", "F">>
    [] OTHER -> <<c>>

RECURSIVE encodeURIComponent(_)
encodeURIComponent(str) ==
  IF str = << >> THEN << >>
  ELSE EncodeChar(str[1]) \o encodeURIComponent(Tail(str))

\* Number(str): Null is NaN
ToNumber(str) ==
  IF str = << >> THEN Some(0)
  ELSE IF \A i \in 1..Len(str) : IsDigit(str[i]) THEN Some(NumOf(str))
  ELSE Null

\* the first position at or after i where p occurs in str, 0 when none
IndexFrom(str, p, i) ==
  IF \E k \in i..Len(str) : IsPrefixAt(p, str, k)
  THEN CHOOSE k \in i..Len(str) :
         IsPrefixAt(p, str, k) /\ \A j \in i..(k - 1) : ~IsPrefixAt(p, str, j)
  ELSE 0

PublicBaseDefault == <<"h","t","t","p","s",":","/","/","t","e","r","m","i","n","a","l","m","a","r","k","e","t",".","a","p","p">>

\* getPublicBaseUrl(): protocol and host of the api base, the public site for
\* a local or unparsable one
getPublicBaseUrl(c) ==
  LET apiBase == getApiBase(c)
      sep == IndexFrom(apiBase, <<":", "/", "/">>, 1)
      hostStart == sep + 3
      slash == IndexFrom(apiBase, <<"/">>, hostStart)
      hostEnd == IF slash = 0 THEN Len(apiBase) ELSE slash - 1
      host == SubSeq(apiBase, hostStart, hostEnd)
  IN  IF apiBase = << >> \/ sep = 0 \/ host = << >> THEN PublicBaseDefault
      ELSE IF Includes(host, <<"l","o","c","a","l","h","o","s","t">>) \/ IsPrefixAt(<<"1","2","7",".","0",".","0",".","1">>, host, 1)
      THEN PublicBaseDefault
      ELSE SubSeq(apiBase, 1, sep) \o <<"/", "/">> \o host

\* `${p.slug || p.id}`
SlugOrId(p) ==
  IF Truthy(p.slug) THEN Val(p.slug)
  ELSE IF p.id # Null /\ Val(p.id) # 0 THEN DecStr(Val(p.id))
  ELSE IF p.id # Null THEN <<"0">>
  ELSE <<"u","n","d","e","f","i","n","e","d">>

\* resolveProductUrl(p)
resolveProductUrl(c, p) ==
  IF Truthy(p.buyUrl) THEN Val(p.buyUrl)
  ELSE IF Truthy(p.externalUrl) THEN Val(p.externalUrl)
  ELSE getPublicBaseUrl(c) \o <<"/","p","r","o","d","u","c","t","/">> \o SlugOrId(p)

\* await apiGet(...).catch(() => null) gave nothing: a throw, or JSON null
Nullish(rt) == rt.kind # "value" \/ rt.value.isNull

PathProductById(arg) == <<"/","p","r","o","d","u","c","t","s","/">> \o encodeURIComponent(arg)
PathProductBySlug(arg) == <<"/","p","r","o","d","u","c","t","s","/","s","l","u","g","/">> \o encodeURIComponent(arg)
PathOffer(offerId) == <<"/","o","f","f","e","r","s","/">> \o DecStr(offerId)
PathIntents == <<"/","i","n","t","e","n","t","s">>
PathClicks == <<"/","c","l","i","c","k","s">>

BuyArgs == {<<"p", "1">>, <<"a", " ", "b">>}
BuyOffers == {Null, Some(<<"7">>), Some(<<"x">>)}

BuyResponses ==
  [status : {200}, setCookie : {Null}, contentType : {Some(CtJson)},
   body : {Some(BodyNull), Some(BodyObj), Some(BodyProduct),
           Some(BodyProductExternal), Some(BodyProductBare), Some(BodyOffer),
           Some(BodyIntent)}]
  \cup
  [status : {200, 500}, setCookie : {Null}, contentType : {Some(CtHtml)},
   body : {Some(BodyEmpty)}]

\* the handler's variables when it starts
BuyLocals(arg, offer, open, noOpenEnv) ==
  [kind |-> "buy", arg |-> arg, offer |-> offer, open |-> open,
   noOpenEnv |-> noOpenEnv, tried |-> << >>, found |-> FALSE, p |-> NoValue,
   offerId |-> Null, offerObj |-> Null, buyUrl |-> Null, intentId |-> Null,
   intentOk |-> FALSE, clickOk |-> FALSE, opened |-> "no"]

\* the handler ends with locals l
BuyEnd(l, o, code) ==
  /\ loc' = l
  /\ pc' = "done"
  /\ out' = o
  /\ exitCode' = code
  /\ ret' = NoRet
  /\ resp' = Null
  /\ UNCHANGED <<conf, cmd, call, sent, ncalls, others>>

\* tm buy <productIdOrSlug>: up to `await apiGet("/products/<arg>")`
BuyStart ==
  /\ Idle
  /\ \E arg \in BuyArgs, offer \in BuyOffers, open \in BOOLEAN, noOpenEnv \in BOOLEAN :
       /\ loc' = [BuyLocals(arg, offer, open, noOpenEnv) EXCEPT !.tried = <<"id">>]
       /\ ApiEnter(<< >>, 0, conf, "GET", PathProductById(arg), "buy.id")
  /\ cmd' = "buy"
  /\ exitCode' = 0
  /\ out' = ""
  /\ UNCHANGED <<conf, others>>

BuyApiGetReturn ==
  \E r \in BuyResponses : ResponseArrives("GET", r, apiGetResult(Val(call).url, r))

BuyApiPostReturn ==
  \E r \in BuyResponses : ResponseArrives("POST", r, apiPostResult(Val(call).url, r))

\* the product p is in hand: resolveProductUrl, then the offer lookup when
\* --offer gives a number, else the intent call
BuyResolved(p) ==
  LET offerId == IF Truthy(loc.offer) THEN ToNumber(Val(loc.offer)) ELSE Null
      useOffer == offerId # Null /\ Val(offerId) # 0
      l == [loc EXCEPT !.found = TRUE, !.p = p,
                       !.buyUrl = Some(resolveProductUrl(conf, p)),
                       !.offerId = IF useOffer THEN offerId ELSE Null]
  IN  /\ loc' = l
      /\ IF useOffer
         THEN ApiEnter(sent, ncalls, conf, "GET", PathOffer(Val(offerId)), "buy.offer")
         ELSE ApiEnter(sent, ncalls, conf, "POST", PathIntents, "buy.intent")
      /\ UNCHANGED <<conf, cmd, exitCode, out, others>>

\* after the lookup by id, with no lookup by slug: nothing found ends the run
BuyAfterIdNoFallback ==
  /\ ResumedAt("buy.id")
  /\ IF Nullish(ret)
     THEN BuyEnd(loc, "Product not found", 1)
     ELSE BuyResolved(ret.value)

\* after the lookup by id: if (!p) the lookup by slug
BuyAfterId ==
  /\ ResumedAt("buy.id")
  /\ IF Nullish(ret)
     THEN /\ loc' = [loc EXCEPT !.tried = Append(@, "slug")]
          /\ ApiEnter(sent, ncalls, conf, "GET", PathProductBySlug(loc.arg), "buy.slug")
          /\ UNCHANGED <<conf, cmd, exitCode, out, others>>
     ELSE BuyResolved(ret.value)

\* after the lookup by slug: if (!p) "Product not found", exit code 1
BuyAfterSlug ==
  /\ ResumedAt("buy.slug")
  /\ IF Nullish(ret)
     THEN BuyEnd(loc, "Product not found", 1)
     ELSE BuyResolved(ret.value)

\* after the offer lookup: if (offer) buyUrl = offer.buyUrl; a throw keeps
\* the product's url
BuyAfterOffer ==
  /\ ResumedAt("buy.offer")
  /\ loc' = IF ~Nullish(ret)
            THEN [loc EXCEPT !.offerObj = Some(ret.value), !.buyUrl = ret.value.buyUrl]
            ELSE loc
  /\ ApiEnter(sent, ncalls, conf, "POST", PathIntents, "buy.intent")
  /\ UNCHANGED <<conf, cmd, exitCode, out, others>>

\* buyUrl with market_intent appended
WithIntent(buyUrl, intentId) ==
  buyUrl \o (IF Includes(buyUrl, <<"?">>) THEN <<"&">> ELSE <<"?">>)
         \o <<"m","a","r","k","e","t","_","i","n","t","e","n","t","=">> \o DecStr(intentId)

\* the locals after try { intentResponse = await apiPost("/intents") ... }
\* catch {}: reading intentId of null throws inside the try
IntentLocals(l, rt) ==
  IF Nullish(rt) THEN l
  ELSE LET intentId == rt.value.intentId
       IN  [l EXCEPT !.intentOk = TRUE,
                     !.intentId = intentId,
                     !.buyUrl = IF intentId # Null /\ Val(intentId) # 0
                                   /\ Truthy(l.buyUrl)
                                THEN Some(WithIntent(Val(l.buyUrl), Val(intentId)))
                                ELSE l.buyUrl]

\* a failed intent call ends the run
BuyAfterIntentAborts ==
  /\ ResumedAt("buy.intent")
  /\ IF Nullish(ret)
     THEN BuyEnd(loc, "error", 1)
     ELSE /\ loc' = IntentLocals(loc, ret)
          /\ ApiEnter(sent, ncalls, conf, "POST", PathClicks, "buy.click")
          /\ UNCHANGED <<conf, cmd, exitCode, out, others>>

\* after the intent call, whatever it gave: the click call
BuyAfterIntent ==
  /\ ResumedAt("buy.intent")
  /\ loc' = IntentLocals(loc, ret)
  /\ ApiEnter(sent, ncalls, conf, "POST", PathClicks, "buy.click")
  /\ UNCHANGED <<conf, cmd, exitCode, out, others>>

\* opts.open !== false && shouldOpenExternal()
WillOpen(l) == l.open /\ ~l.noOpenEnv

\* after the click call, whatever it gave: if (!buyUrl) exit code 1; else the
\* checkout url is printed and, unless opening is off, open(buyUrl) awaited
BuyAfterClick ==
  /\ ResumedAt("buy.click")
  /\ LET l == [loc EXCEPT !.clickOk = (ret.kind = "value")]
     IN  IF ~Truthy(l.buyUrl) \/ Val(l.buyUrl) = << >>
         THEN BuyEnd(l, "no checkout link", 1)
         ELSE IF WillOpen(l)
         THEN /\ loc' = l
              /\ pc' = "buy.open"
              /\ out' = "Opening checkout"
              /\ ret' = NoRet
              /\ resp' = Null
              /\ UNCHANGED <<conf, cmd, call, sent, ncalls, exitCode, others>>
         ELSE BuyEnd(l, "Opening checkout", exitCode)

\* open(buyUrl) resolves: the handler returns
BuyOpenResolves ==
  /\ pc = "buy.open"
  /\ BuyEnd([loc EXCEPT !.opened = "yes"], out, exitCode)

\* open(buyUrl) rejects: the outer catch prints the message, exit code 1
BuyOpenRejects ==
  /\ pc = "buy.open"
  /\ BuyEnd([loc EXCEPT !.opened = "failed"], "error", 1)

BuyNext ==
  \/ BuyStart
  \/ BuyApiGetReturn
  \/ BuyApiPostReturn
  \/ FetchRejects
  \/ BuyAfterId
  \/ BuyAfterSlug
  \/ BuyAfterOffer
  \/ BuyAfterIntent
  \/ BuyAfterClick
  \/ BuyOpenResolves
  \/ BuyOpenRejects

SpecBuy == Init /\ [][BuyNext]_vars

----------------------------------------------------------------------------
(* Claims about tm buy, under SpecBuy *)

BuyDone == cmd = "buy" /\ pc = "done"

\* the call sites of the requests sent so far, in order
Sites(log) == [i \in 1..Len(log) |-> log[i].site]

\* this step sends the lookup by slug
SendsSlugLookup ==
  /\ Len(sent') = Len(sent) + 1
  /\ sent'[Len(sent')].site = "buy.slug"
  /\ sent'[Len(sent')].method = "GET"
  /\ sent'[Len(sent')].url = joinUrl(getApiBase(conf), PathProductBySlug(loc.arg))

C15_Step ==
  /\ (cmd = "buy" /\ ResumedAt("buy.id")) => (Nullish(ret) <=> SendsSlugLookup)
  /\ (Len(sent') > Len(sent) /\ sent'[Len(sent')].site = "buy.slug")
       => (cmd = "buy" /\ ResumedAt("buy.id") /\ Nullish(ret))
  /\ (cmd = "buy" /\ ResumedAt("buy.slug") /\ ~Nullish(ret))
       => /\ loc'.found
          /\ loc'.p = ret.value
          /\ loc'.buyUrl = Some(resolveProductUrl(conf, ret.value))
          /\ pc' \in {"buy.offer", "buy.intent"}
          /\ exitCode' = 0
  /\ (cmd' = "buy" /\ pc # "done" /\ pc' = "done" /\ out' = "Product not found")
       => /\ ResumedAt("buy.slug")
          /\ Nullish(ret)
          /\ Sites(sent) = <<"buy.id", "buy.slug">>
          /\ exitCode' = 1

\* C15: in buy the lookup by slug is sent if and only if the lookup by id
\* yielded no product (it threw or gave null); when the lookup by slug gives
\* a product the command goes on to resolve the checkout url with that
\* product; 'Product not found' with exit code 1 is reported only after both
\* lookups yielded none.
C15_LookupChain == [][C15_Step]_vars

\* a finished buy of "a b" whose second request was the lookup by slug and
\* whose product came with a slug, ended with exit code 0
C15_Witness ==
  /\ BuyDone
  /\ exitCode = 0
  /\ loc.arg = <<"a", " ", "b">>
  /\ Len(sent) = 4
  /\ Sites(sent) = <<"buy.id", "buy.slug", "buy.intent", "buy.click">>
  /\ loc.found
  /\ loc.p.slug = Some(SlugS)

\* the checkout url in hand before the intent call
UrlBeforeIntent ==
  IF loc.offerObj # Null THEN Val(loc.offerObj).buyUrl
  ELSE Some(resolveProductUrl(conf, loc.p))

\* C16: in buy a failure of POST /intents and a failure of POST /clicks are
\* swallowed: once the product is found the click call follows the intent
\* call whatever the intent call gave, and the exit code and the decision to
\* open the browser depend only on the checkout url in hand before the
\* intent call, on the open options and on open() itself.
C16_SideCallsSwallowed ==
  (BuyDone /\ loc.found) =>
    /\ Len(sent) >= 2
    /\ SubSeq(Sites(sent), Len(sent) - 1, Len(sent)) = <<"buy.intent", "buy.click">>
    /\ (loc.opened # "no") <=> (Truthy(UrlBeforeIntent) /\ WillOpen(loc))
    /\ exitCode = IF ~Truthy(UrlBeforeIntent) \/ loc.opened = "failed" THEN 1 ELSE 0

\* a buy whose intent call and click call both failed, and that opened the
\* browser and ended with exit code 0
C16_Witness ==
  /\ BuyDone
  /\ loc.found
  /\ ~loc.intentOk
  /\ ~loc.clickOk
  /\ loc.opened = "yes"
  /\ exitCode = 0

\* no fallback gives a checkout url: no offer url, no buyUrl, no externalUrl,
\* no public product page
NoCheckoutUrl ==
  /\ loc.offerObj = Null \/ ~Truthy(Val(loc.offerObj).buyUrl)
  /\ resolveProductUrl(conf, loc.p) = << >>

\* C17: buy ends with a non-zero exit code only if the product is resolved
\* neither by id nor by slug, or if no checkout url can be determined after
\* all fallbacks.
C17_NonZeroOnlyIfUnresolved ==
  (BuyDone /\ exitCode # 0) => (~loc.found \/ NoCheckoutUrl)

----------------------------------------------------------------------------
(* tm ai run <model> [input...] *)

\* words.join(" ")
RECURSIVE JoinWords(_)
JoinWords(words) ==
  IF words = << >> THEN << >>
  ELSE IF Len(words) = 1 THEN words[1]
  ELSE words[1] \o <<" ">> \o JoinWords(Tail(words))

\* a handler with local variables returns before its first request
EndUnsent(l, o, code) ==
  /\ Idle
  /\ loc' = l
  /\ pc' = "done"
  /\ out' = o
  /\ exitCode' = code
  /\ sent' = << >>
  /\ ncalls' = 0
  /\ call' = Null
  /\ ret' = NoRet
  /\ resp' = Null
  /\ UNCHANGED <<conf, others>>

\* a handler with local variables reaches its first adapter operation
StartWithLocals(l, method, path, site) ==
  /\ Idle
  /\ loc' = l
  /\ exitCode' = 0
  /\ out' = ""
  /\ ApiEnter(<< >>, 0, conf, method, path, site)
  /\ UNCHANGED <<conf, others>>

\* a handler with local variables ends after its last request; the response
\* the adapter consumed last stays on record
EndWith(l, o, code) ==
  /\ loc' = l
  /\ pc' = "done"
  /\ out' = o
  /\ exitCode' = code
  /\ ret' = NoRet
  /\ UNCHANGED <<conf, cmd, call, resp, sent, ncalls, others>>

GuidanceText == <<"I","n","s","u","f","f","i","c","i","e","n","t"," ","c","r","e","d","i","t","s","."," ","U","s","e"," ","'","t","m"," ","a","i"," ","t","o","p","u","p"," ","<","a","m","o","u","n","t",">","'"," ","t","o"," ","a","d","d"," ","c","r","e","d","i","t","s",".">>
Text402 == <<"4","0","2">>
TextInsufficient == <<"I","n","s","u","f","f","i","c","i","e","n","t">>
\* the message of the TypeError a property read of null throws
NullReadText == <<"C","a","n","n","o","t"," ","r","e","a","d"," ","p","r","o","p","e","r","t","i","e","s"," ","o","f"," ","n","u","l","l">>

AiModels == {<<"m">>, <<"4", "0", "2">>}
AiInputs == {<< >>, << << >> >>, << <<"h", "i">> >>, << <<"h", "i">>, <<"y", "o">> >>}

AiResponses ==
  [status : {200}, setCookie : {Null}, contentType : {Some(CtJson)},
   body : {Some(BodyNull), Some(BodyObj), Some(BodyChatKit)}]
  \cup
  [status : {200, 402, 500}, setCookie : {Null}, contentType : {Some(CtHtml)},
   body : {Some(BodyEmpty), Some(BodyInsufficient)}]

PathAiAgent(model) == <<"/","a","i","/","a","g","e","n","t","s","/">> \o model
PathAiChat(model) == <<"/","a","i","/","c","h","a","t","/">> \o model
PathAiRun(model) == <<"/","a","i","/","r","u","n","/">> \o model

AiLocals(model, input) ==
  [kind |-> "ai", model |-> model, inputText |-> JoinWords(input),
   rejected |-> FALSE, hasChatKit |-> FALSE, error |-> Null, printed |-> Null]

\* tm ai run: the input test, then `await apiGet("/ai/agents/<model>")`
AiRunStart ==
  /\ cmd' = "ai"
  /\ \E model \in AiModels, input \in AiInputs :
       LET l == AiLocals(model, input)
       IN  IF l.inputText = << >>
           THEN EndUnsent([l EXCEPT !.rejected = TRUE], "Input is required", 0)
           ELSE StartWithLocals(l, "GET", PathAiAgent(model), "ai.agent")

AiApiGetReturn ==
  \E r \in AiResponses : ResponseArrives("GET", r, apiGetResult(Val(call).url, r))

AiApiPostReturn ==
  \E r \in AiResponses : ResponseArrives("POST", r, apiPostResult(Val(call).url, r))

\* the run endpoint whatever the agent lookup reported
AiAfterAgentAlwaysRun ==
  /\ ResumedAt("ai.agent")
  /\ loc' = [loc EXCEPT !.hasChatKit = FALSE]
  /\ ApiEnter(sent, ncalls, conf, "POST", PathAiRun(loc.model), "ai.post")
  /\ UNCHANGED <<conf, cmd, exitCode, out, others>>

\* after the agent lookup, a throw swallowed: hasChatKit picks the endpoint
AiAfterAgent ==
  /\ ResumedAt("ai.agent")
  /\ LET hasChatKit == ~Nullish(ret) /\ ret.value.hasChatKit
     IN  /\ loc' = [loc EXCEPT !.hasChatKit = hasChatKit]
         /\ ApiEnter(sent, ncalls, conf, "POST",
                     IF hasChatKit THEN PathAiChat(loc.model) ELSE PathAiRun(loc.model),
                     "ai.post")
  /\ UNCHANGED <<conf, cmd, exitCode, out, others>>

\* the message e carries into the catch: the operation's, or the TypeError
\* of reading a property of a null result; Null when nothing is thrown
AiCaught(rt) ==
  IF rt.kind = "error" THEN Some(rt.message)
  ELSE IF rt.value.isNull THEN Some(NullReadText)
  ELSE Null

\* the catch prints the message as it is
AiAfterPostRaw ==
  /\ ResumedAt("ai.post")
  /\ LET e == AiCaught(ret)
     IN  IF e = Null
         THEN EndWith(loc, "AI Result", exitCode)
         ELSE EndWith([loc EXCEPT !.error = e, !.printed = e], "error", 1)

\* after the POST: the result is printed, or the catch prints the guidance
\* for a message with "402" or "Insufficient" and the message otherwise
AiAfterPost ==
  /\ ResumedAt("ai.post")
  /\ LET e == AiCaught(ret)
     IN  IF e = Null
         THEN EndWith(loc, "AI Result", exitCode)
         ELSE IF Includes(Val(e), Text402) \/ Includes(Val(e), TextInsufficient)
         THEN EndWith([loc EXCEPT !.error = e, !.printed = Some(GuidanceText)],
                      "error", 1)
         ELSE EndWith([loc EXCEPT !.error = e, !.printed = e], "error", 1)

AiNext ==
  \/ AiRunStart
  \/ AiApiGetReturn
  \/ AiApiPostReturn
  \/ FetchRejects
  \/ AiAfterAgent
  \/ AiAfterPost

SpecAi == Init /\ [][AiNext]_vars

----------------------------------------------------------------------------
(* Claims about tm ai run, under SpecAi *)

AiDone == cmd = "ai" /\ pc = "done"

\* the POST of this run failed: the operation threw on a response that was
\* not ok, on an unreadable body, or on a rejected fetch
AiPostFailed ==
  /\ AiDone
  /\ Len(sent) = 2
  /\ loc.error # Null
  /\ loc.error # Some(NullReadText)

\* C18: when the POST of ai run fails with a message containing "402" or
\* "Insufficient" (a 402 response always does), the command prints the
\* guidance text, not the composed error string, and sets exit code 1; every
\* other failure prints the error message as it is, also with exit code 1.
C18_InsufficientCredits ==
  (AiDone /\ loc.error # Null) =>
    /\ exitCode = 1
    /\ (resp # Null /\ Val(resp).status = 402)
         => (loc.printed = Some(GuidanceText) /\ loc.printed # loc.error)
    /\ IF Includes(Val(loc.error), Text402)
          \/ Includes(Val(loc.error), TextInsufficient)
       THEN loc.printed = Some(GuidanceText)
       ELSE loc.printed = loc.error

\* a run to model "m" whose POST was answered 402 with an empty body
C18_Witness ==
  /\ AiPostFailed
  /\ loc.model = <<"m">>
  /\ resp # Null /\ Val(resp).status = 402 /\ Val(resp).body = Some(BodyEmpty)
  /\ loc.printed = Some(GuidanceText)
  /\ exitCode = 1

----------------------------------------------------------------------------
(* tm watch create <pipe query and flags...> *)

MaxArgs == 3

FlagNotify == <<"-","-","n","o","t","i","f","y">>
FlagInterval == <<"-","-","i","n","t","e","r","v","a","l">>
FlagAction == <<"-","-","a","c","t","i","o","n">>
FlagName == <<"-","-","n","a","m","e">>
WATCH_FLAGS == {FlagNotify, FlagInterval, FlagAction, FlagName}

\* the words a trailing argument may be
WatchWords == WATCH_FLAGS \cup {<<"s">>, <<"5">>, <<"0">>, << >>}

WatchArgs == UNION {[1..n -> WatchWords] : n \in 0..MaxArgs}

DefaultNotify == <<"i","n","_","a","p","p">>
DefaultAction == <<"n","o","t","i","f","y">>

\* the variables of the loop before its first turn
WatchParseStart ==
  [queryParts |-> << >>, notifyVia |-> DefaultNotify, intervalMinutes |-> 60,
   action |-> DefaultAction, name |-> Null]

\* one flag with its value
WatchSet(st, flag, val) ==
  IF flag = FlagNotify THEN [st EXCEPT !.notifyVia = val]
  ELSE IF flag = FlagInterval
  THEN [st EXCEPT !.intervalMinutes = NumOr(ParseInt(val), 60)]
  ELSE IF flag = FlagAction THEN [st EXCEPT !.action = val]
  ELSE [st EXCEPT !.name = Some(val)]

\* a flag takes no value: it stays a word of the query
RECURSIVE WatchParseFlagsOnly(_, _, _)
WatchParseFlagsOnly(rawArgs, i, st) ==
  IF i > Len(rawArgs) THEN st
  ELSE WatchParseFlagsOnly(rawArgs, i + 1,
                           [st EXCEPT !.queryParts = Append(@, rawArgs[i])])

\* the loop with a value that is also pushed to queryParts
RECURSIVE WatchParseKeepsValue(_, _, _)
WatchParseKeepsValue(rawArgs, i, st) ==
  IF i > Len(rawArgs) THEN st
  ELSE IF rawArgs[i] \in WATCH_FLAGS /\ i < Len(rawArgs) /\ rawArgs[i + 1] # << >>
  THEN WatchParseKeepsValue(rawArgs, i + 2,
         [WatchSet(st, rawArgs[i], rawArgs[i + 1])
            EXCEPT !.queryParts = Append(@, rawArgs[i + 1])])
  ELSE WatchParseKeepsValue(rawArgs, i + 1,
         [st EXCEPT !.queryParts = Append(@, rawArgs[i])])

\* for (let i = 0; i < rawArgs.length; i++) { ... }, from turn i on
RECURSIVE WatchParse(_, _, _)
WatchParse(rawArgs, i, st) ==
  IF i > Len(rawArgs) THEN st
  ELSE IF rawArgs[i] \in WATCH_FLAGS /\ i < Len(rawArgs) /\ rawArgs[i + 1] # << >>
  THEN WatchParse(rawArgs, i + 2, WatchSet(st, rawArgs[i], rawArgs[i + 1]))
  ELSE WatchParse(rawArgs, i + 1, [st EXCEPT !.queryParts = Append(@, rawArgs[i])])

\* the body given to apiPost("/watch-rules", ...)
WatchRule(st) ==
  [pipeQuery |-> JoinWords(st.queryParts), name |-> st.name,
   notifyVia |-> st.notifyVia, action |-> st.action,
   intervalMinutes |-> st.intervalMinutes]

PathWatchRules == <<"/","w","a","t","c","h","-","r","u","l","e","s">>

WatchResponses ==
  [status : {200}, setCookie : {Null}, contentType : {Some(CtJson)},
   body : {Some(BodyObj)}]
  \cup
  [status : {500}, setCookie : {Null}, contentType : {Some(CtHtml)},
   body : {Some(BodyEmpty)}]

\* a process that has run no command yet
Fresh == pc = "idle" /\ ~InFlight

\* tm watch create: the arguments are split, an empty query is rejected,
\* else `await apiPost("/watch-rules", rule)`
WatchCreateStart ==
  /\ Fresh
  /\ cmd' = "watch"
  /\ \E rawArgs \in WatchArgs :
       LET st == WatchParse(rawArgs, 1, WatchParseStart)
           l == [kind |-> "watch", rawArgs |-> rawArgs,
                 queryParts |-> st.queryParts, rule |-> WatchRule(st),
                 rejected |-> FALSE, posted |-> Null]
       IN  IF l.rule.pipeQuery = << >>
           THEN EndUnsent([l EXCEPT !.rejected = TRUE], "error", 1)
           ELSE StartWithLocals([l EXCEPT !.posted = Some(l.rule)], "POST",
                                PathWatchRules, "watch.post")

WatchApiPostReturn ==
  \E r \in WatchResponses : ResponseArrives("POST", r, apiPostResult(Val(call).url, r))

\* after the POST: the rule is shown, or the catch reports, exit code 1
WatchAfterPost ==
  /\ ResumedAt("watch.post")
  /\ IF ret.kind = "value" /\ ~ret.value.isNull
     THEN EndWith(loc, "Watch rule created", exitCode)
     ELSE EndWith(loc, "error", 1)

WatchNext ==
  \/ WatchCreateStart
  \/ WatchApiPostReturn
  \/ FetchRejects
  \/ WatchAfterPost

SpecWatch == Init /\ [][WatchNext]_vars

----------------------------------------------------------------------------
(* Claims about tm watch create, under SpecWatch *)

\* argument i is the value of the flag before it
RECURSIVE TakenAsValue(_, _)
TakenAsValue(args, i) ==
  /\ i > 1
  /\ args[i - 1] \in WATCH_FLAGS
  /\ args[i] # << >>
  /\ ~TakenAsValue(args, i - 1)

\* argument i is a flag with a value: a non-empty argument follows it
ActsAsFlag(args, i) ==
  /\ args[i] \in WATCH_FLAGS
  /\ i < Len(args)
  /\ args[i + 1] # << >>
  /\ ~TakenAsValue(args, i)

\* the arguments at the positions P, in order
ArgsAt(args, P) ==
  LET pos == [k \in 1..Cardinality(P) |->
                CHOOSE i \in P : Cardinality({j \in P : j < i}) = k - 1]
  IN  [k \in 1..Cardinality(P) |-> args[pos[k]]]

\* the value the last occurrence of flag takes, Null when it has none
LastValueOf(args, flag) ==
  LET P == {i \in 1..Len(args) : ActsAsFlag(args, i) /\ args[i] = flag}
  IN  IF P = {} THEN Null
      ELSE Some(args[(CHOOSE i \in P : \A j \in P : j <= i) + 1])

OrDefault(o, d) == IF o = Null THEN d ELSE Val(o)

\* the rule the arguments stand for
RuleOf(args) ==
  [pipeQuery |->
     JoinWords(ArgsAt(args, {i \in 1..Len(args) :
                               ~ActsAsFlag(args, i) /\ ~TakenAsValue(args, i)})),
   name |-> LastValueOf(args, FlagName),
   notifyVia |-> OrDefault(LastValueOf(args, FlagNotify), DefaultNotify),
   action |-> OrDefault(LastValueOf(args, FlagAction), DefaultAction),
   intervalMinutes |->
     IF LastValueOf(args, FlagInterval) = Null THEN 60
     ELSE NumOr(ParseInt(Val(LastValueOf(args, FlagInterval))), 60)]

\* the reading in which every flag word is a flag, whatever follows it
RECURSIVE FollowsFlag(_, _)
FollowsFlag(args, i) ==
  i > 1 /\ args[i - 1] \in WATCH_FLAGS /\ ~FollowsFlag(args, i - 1)

IsFlagWord(args, i) == args[i] \in WATCH_FLAGS /\ ~FollowsFlag(args, i)

NextOf(args, flag) ==
  LET P == {i \in 1..(Len(args) - 1) : IsFlagWord(args, i) /\ args[i] = flag}
  IN  IF P = {} THEN Null
      ELSE Some(args[(CHOOSE i \in P : \A j \in P : j <= i) + 1])

PlainRuleOf(args) ==
  [pipeQuery |->
     JoinWords(ArgsAt(args, {i \in 1..Len(args) :
                               ~IsFlagWord(args, i) /\ ~FollowsFlag(args, i)})),
   name |-> NextOf(args, FlagName),
   notifyVia |-> OrDefault(NextOf(args, FlagNotify), DefaultNotify),
   action |-> OrDefault(NextOf(args, FlagAction), DefaultAction),
   intervalMinutes |->
     IF NextOf(args, FlagInterval) = Null
        \/ ParseInt(Val(NextOf(args, FlagInterval))) = Null
     THEN 60
     ELSE Val(ParseInt(Val(NextOf(args, FlagInterval))))]

\* C19: watch create splits its arguments so that each of --notify,
\* --interval, --action, --name takes the next argument as its value,
\* everything else forms the pipe query, a flag not given keeps its default,
\* and the rule posted carries exactly these values.
C19_FlagsTakeNext ==
  (cmd = "watch" /\ loc.posted # Null) => Val(loc.posted) = PlainRuleOf(loc.rawArgs)

\* C19 (amended): a flag word takes the next argument as its value only when
\* a non-empty argument follows it, otherwise it is a word of the pipe
\* query; --interval is read with parseInt and keeps 60 when that gives NaN
\* or 0; flags not given keep their defaults; the rule posted carries
\* exactly these values, and nothing is posted when the query is empty.
C19_ParsedRule ==
  (cmd = "watch" /\ pc # "idle") =>
    LET expected == RuleOf(loc.rawArgs)
    IN  /\ loc.rule = expected
        /\ IF expected.pipeQuery = << >>
           THEN loc.posted = Null /\ sent = << >> /\ exitCode = 1
           ELSE /\ loc.posted = Some(expected)
                /\ Len(sent) = 1
                /\ sent[1].method = "POST"
                /\ sent[1].url = joinUrl(getApiBase(conf), PathWatchRules)

\* "s --interval 5" was posted as the query "s" every 5 minutes
C19_Witness ==
  /\ cmd = "watch"
  /\ pc = "done"
  /\ exitCode = 0
  /\ loc.rawArgs = <<<<"s">>, FlagInterval, <<"5">>>>
  /\ loc.posted = Some([pipeQuery |-> <<"s">>, name |-> Null,
                        notifyVia |-> DefaultNotify, action |-> DefaultAction,
                        intervalMinutes |-> 5])

----------------------------------------------------------------------------
(* The commands that validate their input: review, profile set,            *)
(* subscribe add (and ai run, watch create above)                          *)

ValidationResponses ==
  [status : {200}, setCookie : {Null}, contentType : {Some(CtJson)},
   body : {Some(BodyObj), Some(BodyAuthenticated)}]
  \cup
  [status : {401}, setCookie : {Null}, contentType : {Some(CtHtml)},
   body : {Some(BodyEmpty)}]

ValidationGetReturn ==
  \E r \in ValidationResponses :
    ResponseArrives("GET", r, apiGetResult(Val(call).url, r))

ValidationPostReturn ==
  \E r \in ValidationResponses :
    ResponseArrives("POST", r, apiPostResult(Val(call).url, r))

ValidationPatchReturn ==
  \E r \in ValidationResponses :
    ResponseArrives("PATCH", r, apiPatchResult(Val(call).url, r))

ReviewRatings == {<<"3">>, <<"0">>, <<"6">>, <<"-", "1">>, <<"x">>}
StoreId == <<"7">>
PathReviews(storeId) == <<"/","s","t","o","r","e","s","/">> \o storeId \o <<"/","r","e","v","i","e","w","s">>

\* ratingNum < 1 || ratingNum > 5: false for NaN
RatingOutOfRange(ratingNum) ==
  ratingNum # Null /\ (Val(ratingNum) < 1 \/ Val(ratingNum) > 5)

\* tm review <storeId> <rating>: the range test, then the POST
ReviewStart ==
  /\ cmd' = "review"
  /\ \E rating \in ReviewRatings :
       LET l == [kind |-> "review", rating |-> rating,
                 ratingNum |-> ParseInt(rating), rejected |-> FALSE]
       IN  IF RatingOutOfRange(l.ratingNum)
           THEN EndUnsent([l EXCEPT !.rejected = TRUE],
                          "Rating must be between 1 and 5.", 0)
           ELSE StartWithLocals(l, "POST", PathReviews(StoreId), "review.post")

\* after the POST: the confirmation, or the catch with exit code 1
ReviewAfterPost ==
  /\ ResumedAt("review.post")
  /\ IF ret.kind = "value"
     THEN EndWith(loc, "Review submitted", exitCode)
     ELSE EndWith(loc, "error", 1)

PathAuthStatus == <<"/","a","u","t","h","/","s","t","a","t","u","s">>
PathProfile == <<"/","p","r","o","f","i","l","e">>

FieldZip == <<"z","i","p">>
FieldAvailable == <<"a","v","a","i","l","a","b","l","e">>
\* the keys of fieldMapping
ProfileFieldNames ==
  {FieldName, <<"p","h","o","n","e">>, <<"a","d","d","r","e","s","s">>, <<"c","i","t","y">>, <<"c","o","u","n","t","r","y">>, <<"g","i","t","h","u","b">>, <<"l","i","n","k","e","d","i","n">>,
   <<"s","k","i","l","l","s">>, <<"b","i","o">>, FieldAvailable}

ProfileFields == {FieldName, FieldAvailable, FieldZip}
ProfileValues == {<< >>, << <<"x">> >>}

\* tm profile set <field> [value...]: setProfileField starts with
\* `await apiGet("/auth/status")`
ProfileSetStart ==
  /\ cmd' = "profile"
  /\ \E field \in ProfileFields, value \in ProfileValues :
       StartWithLocals([kind |-> "profile", field |-> field, value |-> value,
                        rejected |-> FALSE],
                       "GET", PathAuthStatus, "profile.status")

\* after the status call: not logged in; invalid field; empty value; else
\* `await apiPatch("/profile", ...)`.  A throw or a null result reaches the
\* catch of the action
ProfileAfterStatus ==
  /\ ResumedAt("profile.status")
  /\ IF Nullish(ret) THEN EndWith(loc, "error", 1)
     ELSE IF ~ret.value.isAuthenticated THEN EndWith(loc, "Not logged in", exitCode)
     ELSE IF loc.field \notin ProfileFieldNames
     THEN EndWith([loc EXCEPT !.rejected = TRUE], "Invalid field", exitCode)
     ELSE IF JoinWords(loc.value) = << >>
     THEN EndWith([loc EXCEPT !.rejected = TRUE], "Value is required", exitCode)
     ELSE /\ ApiEnter(sent, ncalls, conf, "PATCH", PathProfile, "profile.patch")
          /\ UNCHANGED <<conf, cmd, exitCode, out, harness>>

\* after the PATCH
ProfileAfterPatch ==
  /\ ResumedAt("profile.patch")
  /\ IF ret.kind = "value"
     THEN EndWith(loc, "Updated", exitCode)
     ELSE EndWith(loc, "error", 1)

FreqDaily == <<"d","a","i","l","y">>
FreqWeekly == <<"w","e","e","k","l","y">>
FreqMonthly == <<"m","o","n","t","h","l","y">>
validFreq == {FreqDaily, FreqWeekly, FreqMonthly}
Frequencies == validFreq \cup {<<"y","e","a","r","l","y">>}

DAYS_SHORT == <<<<"s","u","n">>, <<"m","o","n">>, <<"t","u","e">>, <<"w","e","d">>, <<"t","h","u">>, <<"f","r","i">>, <<"s","a","t">>>>
Days == {Null, Some(<<"M","O","N">>), Some(<<"5">>), Some(<<"3", "2">>), Some(<<"x">>)}

PathSubscriptions == <<"/","s","u","b","s","c","r","i","p","t","i","o","n","s">>

\* DAYS_SHORT.indexOf(options.day?.toLowerCase()) === -1
NoWeekDay(day) ==
  day = Null \/ \A i \in 1..Len(DAYS_SHORT) : DAYS_SHORT[i] # ToLower(Val(day))

\* const dayNum = parseInt(options.day);
\* isNaN(dayNum) || dayNum < 1 || dayNum > 31
NoMonthDay(day) ==
  LET dayNum == IF day = Null THEN Null ELSE ParseInt(Val(day))
  IN  dayNum = Null \/ Val(dayNum) < 1 \/ Val(dayNum) > 31

\* tm subscribe add <productId> <frequency>: the tests, then the POST
SubscribeAddStart ==
  /\ cmd' = "subscribe"
  /\ \E frequency \in Frequencies, day \in Days :
       LET l == [kind |-> "subscribe", frequency |-> frequency, day |-> day,
                 rejected |-> FALSE]
       IN  IF frequency \notin validFreq
           THEN EndUnsent([l EXCEPT !.rejected = TRUE], "Invalid frequency", 0)
           ELSE IF frequency = FreqWeekly /\ NoWeekDay(day)
           THEN EndUnsent([l EXCEPT !.rejected = TRUE], "Weekly requires --day", 0)
           ELSE IF frequency = FreqMonthly /\ NoMonthDay(day)
           THEN EndUnsent([l EXCEPT !.rejected = TRUE], "Monthly requires --day", 0)
           ELSE StartWithLocals(l, "POST", PathSubscriptions, "subscribe.post")

\* after the POST: the subscription is shown; the catch prints and leaves
\* the exit code alone
SubscribeAfterPost ==
  /\ ResumedAt("subscribe.post")
  /\ IF ret.kind = "value" /\ ~ret.value.isNull
     THEN EndWith(loc, "Subscription created", exitCode)
     ELSE EndWith(loc, "error", exitCode)

ValidationNext ==
  \/ ReviewStart
  \/ ReviewAfterPost
  \/ ProfileSetStart
  \/ ProfileAfterStatus
  \/ ProfileAfterPatch
  \/ SubscribeAddStart
  \/ SubscribeAfterPost
  \/ AiRunStart
  \/ AiAfterAgent
  \/ AiAfterPost
  \/ WatchCreateStart
  \/ WatchAfterPost
  \/ ValidationGetReturn
  \/ ValidationPostReturn
  \/ ValidationPatchReturn
  \/ FetchRejects

SpecValidation == Init /\ [][ValidationNext]_vars

----------------------------------------------------------------------------
(* Claims about client-side validation, under SpecValidation *)

\* C20: whenever a command rejects its input on a client-side validation
\* (review, profile set, subscribe add, ai run, watch create), it has issued
\* no HTTP request before reporting the error and issues none afterwards.
C20_NoRequestOnRejection ==
  (pc = "done" /\ loc.kind # "none" /\ loc.kind # "buy" /\ loc.rejected) =>
    (sent = << >> /\ ncalls = 0 /\ call = Null)

----------------------------------------------------------------------------
(* tm ai credits, tm subscribe pause <id>: exit codes of handled failures *)

Text401 == <<"4","0","1">>
TextLogin == <<"L","o","g","i","n">>
PathCredits == <<"/","c","r","e","d","i","t","s">>
SubscriptionIds == {<<"7">>, <<"x">>}
PathSubscription(id) == PathSubscriptions \o <<"/">> \o id

ExitResponses ==
  ValidationResponses
  \cup
  [status : {500}, setCookie : {Null}, contentType : {Some(CtHtml)},
   body : {Some(BodyEmpty)}]
  \cup
  [status : {200}, setCookie : {Null}, contentType : {Some(CtJson)},
   body : {Some(BodyNull)}]

ExitGetReturn ==
  \E r \in ExitResponses :
    ResponseArrives("GET", r, apiGetResult(Val(call).url, r))

ExitPostReturn ==
  \E r \in ExitResponses :
    ResponseArrives("POST", r, apiPostResult(Val(call).url, r))

ExitPatchReturn ==
  \E r \in ExitResponses :
    ResponseArrives("PATCH", r, apiPatchResult(Val(call).url, r))

\* what a handler's catch receives: the rejection of the adapter operation,
\* or the TypeError of a property read of a null result
CaughtMessage(rt) ==
  IF rt.kind = "error" THEN rt.message ELSE NullReadText

\* tm ai credits: const credits = await apiGet("/credits")
CreditsStart ==
  /\ cmd' = "credits"
  /\ StartWithLocals([kind |-> "credits", rejected |-> FALSE, failed |-> FALSE],
                     "GET", PathCredits, "credits.get")

\* after the GET: the balance, or the catch: a login hint for a message
\* with "401" or "Login", otherwise the message and exit code 1
CreditsAfterGet ==
  /\ ResumedAt("credits.get")
  /\ IF ~Nullish(ret)
     THEN EndWith(loc, "AI Credits", exitCode)
     ELSE LET message == CaughtMessage(ret)
          IN  IF Includes(message, Text401) \/ Includes(message, TextLogin)
              THEN EndWith([loc EXCEPT !.failed = TRUE],
                           "Please login first: tm login <email>", exitCode)
              ELSE EndWith([loc EXCEPT !.failed = TRUE], "error", 1)

\* tm subscribe pause <id>: await apiPatch(`/subscriptions/${id}`, ...)
SubscribePauseStart ==
  /\ cmd' = "subscribe pause"
  /\ \E id \in SubscriptionIds :
       StartWithLocals([kind |-> "pause", id |-> id, rejected |-> FALSE,
                        failed |-> FALSE],
                       "PATCH", PathSubscription(id), "pause.patch")

\* after the PATCH: the confirmation, or the catch that prints the message
SubscribePauseAfterPatch ==
  /\ ResumedAt("pause.patch")
  /\ IF ret.kind = "value"
     THEN EndWith(loc, "Subscription paused.", exitCode)
     ELSE EndWith([loc EXCEPT !.failed = TRUE], "error", exitCode)

ExitNext ==
  \/ CreditsStart
  \/ CreditsAfterGet
  \/ SubscribePauseStart
  \/ SubscribePauseAfterPatch
  \/ ReviewStart
  \/ ReviewAfterPost
  \/ SubscribeAddStart
  \/ SubscribeAfterPost
  \/ ExitGetReturn
  \/ ExitPostReturn
  \/ ExitPatchReturn
  \/ FetchRejects

SpecExit == Init /\ [][ExitNext]_vars

----------------------------------------------------------------------------
(* Claims about exit codes, under SpecExit *)

\* the command has ended in a handled failure: a rejected argument, or a
\* failed HTTP call reported by its catch
HandledFailure ==
  \/ loc.kind \in {"credits", "pause"} /\ loc.failed
  \/ loc.kind \in {"review", "subscribe"} /\ (loc.rejected \/ out = "error")

\* C21: every command ends with exit code 0 on success and with exit code 1
\* whenever it ends in a handled failure (a failed HTTP call, a 401 rendered
\* as a login hint, an argument validation failure).
C21_ExitCodeOneOnFailure ==
  (pc = "done" /\ loc.kind \in {"credits", "pause", "review", "subscribe"}) =>
    (exitCode = (IF HandledFailure THEN 1 ELSE 0))

----------------------------------------------------------------------------
(* tm view <productIdOrSlug>, tm store <storeId>, tm seller <slug> *)

PathStore(storeId) == <<"/","s","t","o","r","e","s","/">> \o storeId
PathStoreRating(storeId) == PathStore(storeId) \o <<"/","r","a","t","i","n","g">>
PathSeller(slug) == <<"/","s","e","l","l","e","r","s","/">> \o encodeURIComponent(slug)

LookupResponses ==
  [status : {200}, setCookie : {Null}, contentType : {Some(CtJson)},
   body : {Some(BodyNull), Some(BodyProduct), Some(BodyProductBare)}]
  \cup
  [status : {404, 500}, setCookie : {Null}, contentType : {Some(CtHtml)},
   body : {Some(BodyEmpty)}]

LookupGetReturn ==
  \E r \in LookupResponses :
    ResponseArrives("GET", r, apiGetResult(Val(call).url, r))

\* the lookup found nothing: the service answered 404, or 200 with null
AbsentAnswer(rt, r) ==
  /\ r # Null
  /\ \/ Val(r).status = 404
     \/ rt.kind = "value" /\ rt.value.isNull

LookupLocals(kind, arg) ==
  [kind |-> kind, arg |-> arg, tried |-> << >>, absent |-> FALSE]

\* view: let p = await apiGet(`/products/${encodeURIComponent(...)}`)
ViewStart ==
  /\ cmd' = "view"
  /\ \E arg \in BuyArgs :
       StartWithLocals(LookupLocals("view", arg), "GET", PathProductById(arg),
                       "view.id")

\* .catch(() => null); if (!p) the lookup by slug
ViewAfterId ==
  /\ ResumedAt("view.id")
  /\ IF Nullish(ret)
     THEN /\ loc' = [loc EXCEPT !.tried = <<"id">>,
                                !.absent = AbsentAnswer(ret, resp)]
          /\ ApiEnter(sent, ncalls, conf, "GET", PathProductBySlug(loc.arg),
                      "view.slug")
          /\ UNCHANGED <<conf, cmd, exitCode, out, others>>
     ELSE EndWith([loc EXCEPT !.tried = <<"id">>], "product", exitCode)

\* .catch(() => null); if (!p) "Product not found" and exit code 1
ViewAfterSlug ==
  /\ ResumedAt("view.slug")
  /\ LET l == [loc EXCEPT !.tried = <<"id", "slug">>,
                          !.absent = loc.absent /\ AbsentAnswer(ret, resp)]
     IN  IF Nullish(ret)
         THEN EndWith(l, "Product not found", 1)
         ELSE EndWith([l EXCEPT !.absent = FALSE], "product", exitCode)

\* store: const store = await apiGet(`/stores/${storeId}`)
StoreStart ==
  /\ cmd' = "store"
  /\ StartWithLocals(LookupLocals("store", StoreId), "GET", PathStore(StoreId),
                     "store.get")

\* if (!store) "Store not found" and return; otherwise the rating lookup;
\* the outer catch prints the message and sets exit code 1
StoreAfterGet ==
  /\ ResumedAt("store.get")
  /\ LET l == [loc EXCEPT !.tried = <<"id">>,
                          !.absent = AbsentAnswer(ret, resp)]
     IN  IF ret.kind = "error" THEN EndWith(l, "error", 1)
         ELSE IF ret.value.isNull THEN EndWith(l, "Store not found", exitCode)
         ELSE /\ loc' = l
              /\ ApiEnter(sent, ncalls, conf, "GET", PathStoreRating(loc.arg),
                          "store.rating")
              /\ UNCHANGED <<conf, cmd, exitCode, out, others>>

\* try { rating } catch {}; printStoreCard(store)
StoreAfterRating ==
  /\ ResumedAt("store.rating")
  /\ EndWith(loc, "store", exitCode)

\* seller: const seller = await apiGet(`/sellers/${encodeURIComponent(slug)}`)
SellerStart ==
  /\ cmd' = "seller"
  /\ \E slug \in BuyArgs :
       StartWithLocals(LookupLocals("seller", slug), "GET", PathSeller(slug),
                       "seller.get")

\* if (!seller) "Seller not found" and exit code 1; the catch prints the
\* message and sets exit code 1
SellerAfterGet ==
  /\ ResumedAt("seller.get")
  /\ LET l == [loc EXCEPT !.tried = <<"slug">>,
                          !.absent = AbsentAnswer(ret, resp)]
     IN  IF ret.kind = "error" THEN EndWith(l, "error", 1)
         ELSE IF ret.value.isNull THEN EndWith(l, "Seller not found", 1)
         ELSE EndWith(l, "store", exitCode)

LookupNext ==
  \/ ViewStart
  \/ ViewAfterId
  \/ ViewAfterSlug
  \/ StoreStart
  \/ StoreAfterGet
  \/ StoreAfterRating
  \/ SellerStart
  \/ SellerAfterGet
  \/ LookupGetReturn
  \/ FetchRejects

SpecLookup == Init /\ [][LookupNext]_vars

----------------------------------------------------------------------------
(* Claims about lookups, under SpecLookup *)

NotFoundText ==
  CASE loc.kind = "view" -> "Product not found"
    [] loc.kind = "store" -> "Store not found"
    [] loc.kind = "seller" -> "Seller not found"

\* C22: when the product, seller or store is absent after every lookup the
\* command makes, view, store and seller report their "not found" message,
\* not a composed HTTP error, and end with exit code 1.
C22_AbsentIsNotFound ==
  (pc = "done" /\ loc.kind \in {"view", "store", "seller"} /\ loc.absent) =>
    (out = NotFoundText /\ exitCode = 1)

----------------------------------------------------------------------------
(* The persisted store under sequences of set, delete and get *)

ConfValues == {<<"a">>, <<"b">>}
Countries == {Null, Some(<<"c">>)}
ClearableKeys == {"sessionCookie", "csrfToken", "user"}

\* what the accessor of a key returns
GetOf(c, key) ==
  CASE key = "apiBase" -> Some(getApiBase(c))
    [] key = "sessionCookie" -> getSessionCookie(c)
    [] key = "csrfToken" -> getCsrfToken(c)
    [] key = "user" -> getUser(c)
    [] key = "location" -> getLocation(c)

\* the store after the setter of a key
SetOf(c, key, value, country) ==
  CASE key = "apiBase" -> setApiBase(c, value)
    [] key = "sessionCookie" -> setSessionCookie(c, value)
    [] key = "csrfToken" -> setCsrfToken(c, value)
    [] key = "user" -> setUser(c, value)
    [] key = "location" -> setLocation(c, value, country)

\* the value the setter of a key was given
SetValue(key, value, country) ==
  IF key = "location" THEN [city |-> value, country |-> country] ELSE value

\* the store after the clear function of a key
ClearOf(c, key) ==
  CASE key = "sessionCookie" -> clearSession(c)
    [] key = "csrfToken" -> clearCsrfToken(c)
    [] key = "user" -> clearUser(c)

DefaultOf(key) == IF key = "apiBase" THEN Some(DefaultApiBase) ELSE Null

\* the record of the operations applied so far: the value each key was set
\* to last (none when never set or deleted since), the keys deleted, and the
\* last operation with what it returned
ConfLocals(lastSet, cleared, op, key, got) ==
  [kind |-> "conf", lastSet |-> lastSet, cleared |-> cleared, op |-> op,
   key |-> key, got |-> got]

ConfOp ==
  /\ loc.kind = "conf"
  /\ UNCHANGED <<cmd, pc, call, resp, ret, sent, ncalls, exitCode, out, others>>

ConfSetOp ==
  /\ ConfOp
  /\ \E key \in ConfKeys, value \in ConfValues, country \in Countries :
       /\ key # "location" => country = Null
       /\ conf' = SetOf(conf, key, value, country)
       /\ loc' = ConfLocals(
            [loc.lastSet EXCEPT ![key] = Some(SetValue(key, value, country))],
            loc.cleared \ {key}, "set", key, Null)

ConfDeleteOp ==
  /\ ConfOp
  /\ \E key \in ClearableKeys :
       /\ conf' = ClearOf(conf, key)
       /\ loc' = ConfLocals([loc.lastSet EXCEPT ![key] = Null],
                            loc.cleared \cup {key}, "delete", key, Null)

ConfGetOp ==
  /\ ConfOp
  /\ \E key \in ConfKeys :
       /\ conf' = conf
       /\ loc' = ConfLocals(loc.lastSet, loc.cleared, "get", key,
                            GetOf(conf, key))

ConfInit ==
  /\ conf = [k \in ConfKeys |-> Null]
  /\ cmd = "none"
  /\ pc = "idle"
  /\ call = Null
  /\ resp = Null
  /\ ret = NoRet
  /\ sent = << >>
  /\ ncalls = 0
  /\ exitCode = 0
  /\ out = ""
  /\ jbase = << >>
  /\ jpath = << >>
  /\ jurl = Null
  /\ sx = NoSearch
  /\ loc = ConfLocals([k \in ConfKeys |-> Null], {}, "none", "none", Null)

ConfNext ==
  \/ ConfSetOp
  \/ ConfDeleteOp
  \/ ConfGetOp

SpecConf == ConfInit /\ [][ConfNext]_vars

----------------------------------------------------------------------------
(* Claims about the persisted store, under SpecConf *)

\* the most recently set value of a key, or its default
ExpectedOf(key) ==
  IF loc.lastSet[key] # Null THEN loc.lastSet[key] ELSE DefaultOf(key)

\* C23: after any sequence of set, delete and get on the persisted keys, the
\* get of every key returns the value most recently set for that key, or the
\* key's default (the production URL for apiBase, null for the others) when
\* it was never set or was deleted since; so a set or delete on one key
\* changes the get of no other key.
C23_GetReturnsLastSet ==
  /\ \A key \in ConfKeys : GetOf(conf, key) = ExpectedOf(key)
  /\ loc.op = "get" => loc.got = ExpectedOf(loc.key)

\* a get of a deleted key while other keys hold set values
C23_Witness ==
  /\ loc.op = "get"
  /\ loc.key \in loc.cleared
  /\ loc.got = Null
  /\ \E other \in ConfKeys \ {loc.key} : loc.lastSet[other] # Null
  /\ loc.lastSet["location"] # Null

----------------------------------------------------------------------------
(* Claims about the CSRF token after login and register, under Spec *)

\* the request log holds a GET of the CSRF token endpoint
CsrfRequested ==
  \E i \in 1..Len(sent) :
    /\ sent[i].method = "GET"
    /\ sent[i].url = joinUrl(getApiBase(conf), PathCsrfToken)

\* C24 (as stated): every register and every login that ends successfully
\* has requested the CSRF token endpoint and leaves a CSRF token stored.
C24_TokenAfterEverySuccess ==
  (pc = "done" /\ cmd \in {"register", "login"} /\ exitCode = 0) =>
    (CsrfRequested /\ getCsrfToken(conf) # Null)

\* C24 (amended): a login that ends successfully, and a register that ends
\* successfully after an answer with a user, end right after the answer to
\* GET /auth/csrf-token, and a token in that answer is the stored token. A
\* register answered without a user ends without that request.
C24_TokenFetchedBeforeFinish ==
  [][ (pc # "done" /\ pc' = "done" /\ cmd \in {"register", "login"}
       /\ exitCode' = 0)
      => IF cmd = "register" /\ pc = "register"
         THEN ~Truthy(ret.value.user) /\ ~CsrfRequested
         ELSE /\ pc \in {"register.csrf", "login.csrf"}
              /\ LastSent.site = pc
              /\ LastSent.method = "GET"
              /\ LastSent.url = joinUrl(getApiBase(conf), PathCsrfToken)
              /\ (ret.kind = "value" /\ Truthy(ret.value.csrfToken))
                   => getCsrfToken(conf') = ret.value.csrfToken
    ]_vars

\* a register answered with a user has ended after the token request, and
\* the token is stored
C24_Witness ==
  /\ cmd = "register"
  /\ pc = "done"
  /\ out = "welcome"
  /\ Len(sent) = 2
  /\ sent[2].site = "register.csrf"
  /\ getCsrfToken(conf) = Some(TokenT1)
  /\ getUser(conf) # Null

----------------------------------------------------------------------------
(* Claims about the endpoint of ai run, under SpecAi *)

\* the agent lookup succeeded and reported a chat-capable agent
ChatCapable(r) ==
  /\ r # Null
  /\ ResOk(Val(r))
  /\ ResJson(Val(r)) # Null
  /\ Val(ResJson(Val(r))).hasChatKit

PostsIn(log) == {i \in 1..Len(log) : log[i].method = "POST"}

\* C25: an ai run with input, once GET /ai/agents/<model> has returned or
\* failed, goes on to one POST: to /ai/chat/<model> if and only if the lookup
\* succeeded and reported a chat-capable agent, otherwise to /ai/run/<model>;
\* a failed lookup never ends the command, and a finished run has posted
\* exactly once.
C25_OneEndpoint ==
  [][ /\ (cmd = "ai" /\ pc = "ai.agent" /\ ~InFlight) =>
           /\ pc' = "ai.post"
           /\ sent' = Append(sent, sent'[Len(sent')])
           /\ sent'[Len(sent')].method = "POST"
           /\ sent'[Len(sent')].url =
                joinUrl(getApiBase(conf),
                        IF ChatCapable(resp) THEN PathAiChat(loc.model)
                        ELSE PathAiRun(loc.model))
      /\ (cmd' = "ai" /\ pc' = "done" /\ sent' # << >>) =>
           Cardinality(PostsIn(sent')) = 1
    ]_vars

\* a run has finished after posting to the chat endpoint of its model
C25_Witness ==
  /\ AiDone
  /\ loc.hasChatKit
  /\ Len(sent) = 2
  /\ sent[1].method = "GET"
  /\ sent[2].url = joinUrl(getApiBase(conf), PathAiChat(loc.model))

----------------------------------------------------------------------------
(* tm ai chat <agent> [message...] *)

MaxTurns == 3

ChatAgent == <<"m">>
ChatMessages == {<< >>, << << >> >>, << <<"h">> >>}
ChatLines == {<< >>, <<" ">>, <<"h">>, <<" ", "h", " ">>,
              <<"e","x","i","t">>, <<"q","u","i","t">>, <<"/","e","x","i","t">>}

ChatResponses ==
  [status : {200}, setCookie : {Null}, contentType : {Some(CtJson)},
   body : {Some(BodyNull), Some(BodyObj), Some(BodyResponseR1),
           Some(BodyResponseR2), Some(BodyResponseEmptyId)}]
  \cup
  [status : {402}, setCookie : {Null}, contentType : {Some(CtHtml)},
   body : {Some(BodyEmpty)}]

ChatGetReturn ==
  \E r \in ChatResponses :
    ResponseArrives("GET", r, apiGetResult(Val(call).url, r))

ChatPostReturn ==
  \E r \in ChatResponses :
    ResponseArrives("POST", r, apiPostResult(Val(call).url, r))

IsSpace(ch) == ch = " "

\* line.trim()
RECURSIVE trim(_)
trim(s) ==
  IF s # << >> /\ IsSpace(s[1]) THEN trim(Tail(s))
  ELSE IF s # << >> /\ IsSpace(s[Len(s)]) THEN trim(SubSeq(s, 1, Len(s) - 1))
  ELSE s

\* !trimmed || trimmed === 'exit' || trimmed === 'quit' || trimmed === '/exit'
EndsChat(trimmed) ==
  \/ trimmed = << >>
  \/ trimmed = <<"e","x","i","t">>
  \/ trimmed = <<"q","u","i","t">>
  \/ trimmed = <<"/","e","x","i","t">>

\* the handler's locals: previousResponseId, and, for each sendMessage so
\* far, the body it posted and the responseId its result gave; lines counts
\* the lines the question callback received
ChatLocals(message) ==
  [kind |-> "chat", initialMessage |-> JoinWords(message),
   previousResponseId |-> Null, turns |-> << >>, lines |-> 0,
   lastLine |-> << >>]

\* the body of the POST: { message: text, ...(previousResponseId ?
\* { previousResponseId } : {}) }
ChatBody(text, previousResponseId) ==
  [message |-> text,
   previousResponseId |->
     IF Truthy(previousResponseId) THEN previousResponseId ELSE Null,
   answered |-> FALSE, responseId |-> Null]

\* sendMessage(text) up to its await apiPost(`/ai/chat/${agent}`, ...)
sendMessage(l, text) ==
  /\ loc' = [l EXCEPT !.turns = Append(l.turns, ChatBody(text, l.previousResponseId))]
  /\ ApiEnter(sent, ncalls, conf, "POST", PathAiChat(ChatAgent), "chat.turn")
  /\ UNCHANGED <<conf, cmd, exitCode, out, others>>

\* the chat action up to the agent lookup
ChatStart ==
  /\ cmd' = "chat"
  /\ \E message \in ChatMessages :
       StartWithLocals(ChatLocals(message), "GET", PathAiAgent(ChatAgent),
                       "chat.agent")

\* after the lookup: "not found" and exit code 1 when it failed; the outer
\* catch when agentInfo is null; otherwise the initial message, if any, is
\* sent, or the first prompt is shown
ChatAfterAgent ==
  /\ ResumedAt("chat.agent")
  /\ IF ret.kind = "error" THEN EndWith(loc, "Agent not found", 1)
     ELSE IF ret.value.isNull THEN EndWith(loc, "error", 1)
     ELSE IF loc.initialMessage # << >> THEN sendMessage(loc, loc.initialMessage)
     ELSE /\ pc' = "chat.prompt"
          /\ ret' = NoRet
          /\ UNCHANGED <<conf, cmd, call, resp, sent, ncalls, exitCode, out,
                         loc, others>>

\* the responseId a result holds, when the operation returned one
ResultResponseId(rt) ==
  IF rt.kind = "value" /\ ~rt.value.isNull /\ Truthy(rt.value.responseId)
  THEN rt.value.responseId ELSE Null

\* sendMessage with previousResponseId = result.responseId unconditionally
ChatAfterTurnOverwrites ==
  /\ ResumedAt("chat.turn")
  /\ LET n == Len(loc.turns)
         id == ResultResponseId(ret)
     IN  loc' = [loc EXCEPT !.previousResponseId = id,
                            !.turns[n].answered = TRUE,
                            !.turns[n].responseId = id]
  /\ pc' = "chat.prompt"
  /\ out' = IF ResultResponseId(ret) # Null THEN "answer" ELSE "error"
  /\ ret' = NoRet
  /\ UNCHANGED <<conf, cmd, call, resp, sent, ncalls, exitCode, others>>

\* sendMessage after its POST: if (result.responseId) previousResponseId =
\* result.responseId; its catch prints and returns; then prompt()
ChatAfterTurn ==
  /\ ResumedAt("chat.turn")
  /\ LET n == Len(loc.turns)
         id == ResultResponseId(ret)
     IN  loc' = [loc EXCEPT !.previousResponseId =
                              IF id # Null THEN id ELSE loc.previousResponseId,
                            !.turns[n].answered = TRUE,
                            !.turns[n].responseId = id]
  /\ pc' = "chat.prompt"
  /\ out' = IF ret.kind = "value" /\ ~ret.value.isNull THEN "answer" ELSE "error"
  /\ ret' = NoRet
  /\ UNCHANGED <<conf, cmd, call, resp, sent, ncalls, exitCode, others>>

\* the question callback that calls prompt() without awaiting sendMessage
ChatLineNoAwait ==
  /\ pc \in {"chat.prompt", "chat.turn"}
  /\ \E line \in ChatLines :
       LET trimmed == trim(line)
           l == [loc EXCEPT !.lines = loc.lines + 1, !.lastLine = line]
       IN  IF EndsChat(trimmed)
           THEN ~InFlight /\ EndWith(l, "Chat ended.", exitCode)
           ELSE /\ Len(loc.turns) < MaxTurns
                /\ sendMessage(l, trimmed)

\* rl.question callback: a terminating line ends the chat; any other line
\* is sent, and prompt() follows when sendMessage has completed
ChatLine ==
  /\ pc = "chat.prompt"
  /\ ~InFlight
  /\ \E line \in ChatLines :
       LET trimmed == trim(line)
           l == [loc EXCEPT !.lines = loc.lines + 1, !.lastLine = line]
       IN  IF EndsChat(trimmed)
           THEN EndWith(l, "Chat ended.", exitCode)
           ELSE /\ Len(loc.turns) < MaxTurns
                /\ sendMessage(l, trimmed)

ChatNext ==
  \/ ChatStart
  \/ ChatAfterAgent
  \/ ChatAfterTurn
  \/ ChatLine
  \/ ChatGetReturn
  \/ ChatPostReturn
  \/ FetchRejects

SpecChat == Init /\ [][ChatNext]_vars

----------------------------------------------------------------------------
(* Claims about ai chat, under SpecChat *)

\* the responseId of the most recent turn before turn i whose result held
\* one; none when there is no such turn
RECURSIVE LastResponseIdBefore(_, _)
LastResponseIdBefore(turns, i) ==
  IF i <= 1 THEN Null
  ELSE IF turns[i - 1].responseId # Null THEN turns[i - 1].responseId
  ELSE LastResponseIdBefore(turns, i - 1)

\* C26: in ai chat the first turn's request carries no previousResponseId,
\* and every later turn's request carries the responseId of the most recent
\* earlier turn whose response held one; a failed turn and a turn whose
\* response holds no responseId leave the carried id as it was.
C26_PreviousResponseId ==
  loc.kind = "chat" =>
    /\ \A i \in 1..Len(loc.turns) :
         loc.turns[i].previousResponseId = LastResponseIdBefore(loc.turns, i)
    /\ (loc.turns # << >> /\ loc.turns[Len(loc.turns)].answered) =>
         loc.previousResponseId =
           LastResponseIdBefore(loc.turns, Len(loc.turns) + 1)

\* a third turn carries the id of the first after a second that failed
C26_Witness ==
  /\ loc.kind = "chat"
  /\ Len(loc.turns) = 3
  /\ loc.turns[1].responseId = Some(ResponseR1)
  /\ loc.turns[2].answered
  /\ loc.turns[2].responseId = Null
  /\ loc.turns[3].previousResponseId = Some(ResponseR1)
  /\ loc.turns[1].previousResponseId = Null

\* C27: no request is started while another is in flight; in ai chat a
\* line is taken from the prompt only when every earlier turn has been
\* answered or has failed, a terminating line ends the chat without a
\* request, and every other line starts exactly one POST.
C27_OneRequestAtATime ==
  [][ /\ (call' # Null /\ call' # call) => call = Null
      /\ (loc.kind = "chat" /\ loc'.kind = "chat"
          /\ loc'.lines = loc.lines + 1) =>
           /\ call = Null
           /\ \A i \in 1..Len(loc.turns) : loc.turns[i].answered
           /\ IF EndsChat(trim(loc'.lastLine))
              THEN sent' = sent /\ call' = Null /\ pc' = "done"
              ELSE /\ Len(sent') = Len(sent) + 1
                   /\ SubSeq(sent', 1, Len(sent)) = sent
                   /\ call' = Some(sent'[Len(sent')])
                   /\ Val(call').method = "POST"
                   /\ Val(call').url =
                        joinUrl(getApiBase(conf), PathAiChat(ChatAgent))
    ]_vars

\* the second line of a chat that began with an initial message has been
\* sent: four requests so far, the last one in flight
C27_Witness ==
  /\ loc.kind = "chat"
  /\ loc.lines = 2
  /\ Len(loc.turns) = 3
  /\ Len(sent) = 4
  /\ InFlight
  /\ loc.turns[2].answered
  /\ ~loc.turns[3].answered

\* C28: while login or register waits for its POST, and when that POST has
\* failed, the cached user and the stored CSRF token stay as they were; the
\* failed command ends right there with exit code 1 and sends no request to
\* the CSRF endpoint.
C28_FailedAuthLeavesState ==
  [][ /\ (cmd' \in {"login", "register"} /\ pc' \in {"login", "register"}) =>
           (conf'.user = conf.user /\ conf'.csrfToken = conf.csrfToken)
      /\ (cmd \in {"login", "register"} /\ pc \in {"login", "register"}
          /\ ~InFlight /\ ret.kind = "error") =>
           /\ conf'.user = conf.user
           /\ conf'.csrfToken = conf.csrfToken
           /\ pc' = "done"
           /\ exitCode' = 1
           /\ sent' = sent
           /\ Len(sent') = 1
           /\ call' = Null
    ]_vars

\* a login has failed after an earlier one succeeded: one request sent, and
\* the user and the token of the earlier login are still stored
C28_Witness ==
  /\ cmd = "login"
  /\ pc = "done"
  /\ exitCode = 1
  /\ Len(sent) = 1
  /\ sent[1].url = joinUrl(getApiBase(conf), PathLogin)
  /\ getUser(conf) = Some(UserU1)
  /\ getCsrfToken(conf) = Some(TokenT1)

\* 'connect.sid=' followed by a non-empty text without ';'
WellFormedSid(v) ==
  /\ Len(v) > Len(SidName)
  /\ SubSeq(v, 1, Len(SidName)) = SidName
  /\ \A k \in (Len(SidName) + 1)..Len(v) : v[k] # ";"

\* an adapter operation ends: its request is no longer in flight
OperationEnds == call # Null /\ call' = Null

\* C29: an adapter operation changes the stored session cookie only when its
\* response carries a Set-Cookie header with a connect.sid=<value> pair, and
\* leaves it as it was otherwise (no header, no pair, a rejected fetch);
\* outside the adapter only logout touches it, by removing it; every stored
\* value is 'connect.sid=' followed by a non-empty text without ';'.
C29_CookieOnlyFromSessionPair ==
  [][ /\ OperationEnds =>
           IF /\ resp' # Null
              /\ Val(resp').setCookie # Null
              /\ SessionPairs(Val(Val(resp').setCookie)) # {}
           THEN conf'.sessionCookie # Null
           ELSE conf'.sessionCookie = conf.sessionCookie
      /\ (conf'.sessionCookie # conf.sessionCookie /\ ~OperationEnds) =>
           (cmd = "logout" /\ conf'.sessionCookie = Null)
      /\ conf'.sessionCookie # Null => WellFormedSid(Val(conf'.sessionCookie))
    ]_vars

\* a response with a Set-Cookie header that holds no session pair has been
\* consumed, and the cookie stored before is still there
C29_Witness ==
  /\ AfterResponse
  /\ Val(resp).setCookie # Null
  /\ Val(Val(resp).setCookie) # << >>
  /\ SessionPairs(Val(Val(resp).setCookie)) = {}
  /\ conf.sessionCookie # Null
  /\ WellFormedSid(Val(conf.sessionCookie))

----------------------------------------------------------------------------
(* Claims about the arguments of watch create, under SpecWatch *)

FlagPositions(args) == {i \in 1..Len(args) : ActsAsFlag(args, i)}
ValuePositions(args) == {i \in 1..Len(args) : TakenAsValue(args, i)}
QueryPositions(args) ==
  (1..Len(args)) \ (FlagPositions(args) \cup ValuePositions(args))

====
